---------------------------- MODULE Spec2Model ----------------------------
(***************************************************************************)
(* Model of the book-viewer builders of the applied-maths site:            *)
(*   build.py                 find_images, find_pages_folder, parse_toc,   *)
(*                            build_viewer                                 *)
(*   archive/looker-build.py  parse_toc (offset applied while parsing) and *)
(*                            the page-info loop of build_looker           *)
(*   build.py                 discover_books, main                         *)
(*   index-builder.py         collect_root_apps and the extractors it calls*)
(*   push.py                  main and the git commands it issues          *)
(* Text is modelled as TLA+ strings, one character per position, and the   *)
(* Python string methods the code calls are operators over them.           *)
(***************************************************************************)
EXTENDS Integers, Sequences, FiniteSets, TLC

VARIABLES
    toc_file,         \* the TOC path handed to parse_toc: [exists, text]
    lines,            \* read_text(...).splitlines()
    pc,               \* position of the running function
    lineNo,           \* 1-based index of the line the loop is about to read
    chapters,         \* result["chapters"]
    offset,           \* the parsed page offset
    current_chapter,  \* index into chapters of the open chapter, 0 for None
    book_dir,         \* directory listing of the book, in enumeration order
    pages_folder,     \* what find_pages_folder returned
    images,           \* what find_images returned for the pages folder
    page_info,        \* build_looker's page_info list
    script,           \* the script that runs: "build.py" or "looker-build.py"
    toc_path,         \* the name find_toc_file returned, "None" for None
    template_exists,  \* TEMPLATE_FILE is there to be read
    written,          \* the files written into the book directories, in order
    books_root,       \* directory listing of BOOKS_ROOT, in enumeration order
    books,            \* main's list of books, as discover_books returned it
    bookNo,           \* 1-based index of the book main's loop is at
    success,          \* main's count of viewers built
    root,             \* index-builder.py: directory listing of ROOT
    fileNo,           \* 1-based index of the file collect_root_apps is at
    groups,           \* collect_root_apps' groups, in insertion order
    ordered,          \* the mapping collect_root_apps returns
    git,              \* push.py: the repository the git commands act on
    cmds,             \* the git commands push.py has issued, in order
    default_branch    \* main's default_branch

vars == <<toc_file, lines, pc, lineNo, chapters, offset, current_chapter,
          book_dir, pages_folder, images, page_info,
          script, toc_path, template_exists, written,
          books_root, books, bookNo, success,
          root, fileNo, groups, ordered,
          git, cmds, default_branch>>

tocVars == <<toc_file, lines, lineNo, chapters, offset, current_chapter>>
mainVars == <<books_root, books, bookNo, success>>
indexVars == <<root, fileNo, groups, ordered>>
pushVars == <<git, cmds, default_branch>>
otherVars == <<indexVars, pushVars>>
outVars == <<script, toc_path, template_exists, written, mainVars, otherVars>>
fsVars == <<book_dir, pages_folder, images, outVars>>

(***************************************************************************)
(* Bounds of the model.                                                    *)
(***************************************************************************)
MaxLines == 3
MaxFiles == 2
MaxSubs == 2
MaxPages == 5

(***************************************************************************)
(* Characters and Python's str methods.                                    *)
(***************************************************************************)
\* the printable ASCII characters 32..95 and 97..126, in code order
AsciiLow == " !\"#$%&'()*+,-./0123456789:;<=>?@ABCDEFGHIJKLMNOPQRSTUVWXYZ[\\]^_"
AsciiHigh == "abcdefghijklmnopqrstuvwxyz{|}~"
UpperChars == "ABCDEFGHIJKLMNOPQRSTUVWXYZ"
LowerChars == "abcdefghijklmnopqrstuvwxyz"
Digits == "0123456789"

CharAt(s, i) == SubSeq(s, i, i)

RECURSIVE IndexFrom(_, _, _)
\* 1-based position of character c in s at or after position i, 0 when absent
IndexFrom(s, c, i) ==
    IF i > Len(s) THEN 0
    ELSE IF CharAt(s, i) = c THEN i
    ELSE IndexFrom(s, c, i + 1)

IndexOf(s, c) == IndexFrom(s, c, 1)

CharsOf(s) == {CharAt(s, i) : i \in 1..Len(s)}

\* the code point of each character (ord)
OrdOf ==
    [c \in CharsOf(AsciiLow) \cup CharsOf(AsciiHigh) \cup {"\t", "\n"} |->
        IF c = "\t" THEN 9
        ELSE IF c = "\n" THEN 10
        ELSE IF IndexOf(AsciiLow, c) > 0 THEN 31 + IndexOf(AsciiLow, c)
        ELSE 96 + IndexOf(AsciiHigh, c)]

Ord(c) == OrdOf[c]

DigitSet == CharsOf(Digits)
DigitOf == [c \in DigitSet |-> IndexOf(Digits, c) - 1]
ToLower == [c \in CharsOf(UpperChars) |-> CharAt(LowerChars, IndexOf(UpperChars, c))]
ToUpper == [c \in CharsOf(LowerChars) |-> CharAt(UpperChars, IndexOf(LowerChars, c))]

IsSpace(c) == c \in {" ", "\t", "\n"}
IsDigitChar(c) == c \in DigitSet
DigitVal(c) == DigitOf[c]

RECURSIVE LStrip(_)
LStrip(s) ==
    IF Len(s) > 0 /\ IsSpace(CharAt(s, 1)) THEN LStrip(Tail(s)) ELSE s

RECURSIVE RStrip(_)
RStrip(s) ==
    IF Len(s) > 0 /\ IsSpace(CharAt(s, Len(s)))
    THEN RStrip(SubSeq(s, 1, Len(s) - 1))
    ELSE s

\* str.strip()
Strip(s) == LStrip(RStrip(s))

\* str.startswith(p)
StartsWith(s, p) == Len(s) >= Len(p) /\ SubSeq(s, 1, Len(p)) = p

RECURSIVE MapChars(_, _)
MapChars(s, table) ==
    IF Len(s) = 0 THEN ""
    ELSE LET c == Head(s)
         IN (IF c \in DOMAIN table THEN table[c] ELSE c) \o MapChars(Tail(s), table)

\* str.upper() and str.lower()
Upper(s) == MapChars(s, ToUpper)
Lower(s) == MapChars(s, ToLower)

RECURSIVE Split(_, _)
\* str.split(sep) for a one-character separator: always at least one piece
Split(s, sep) ==
    LET k == IndexOf(s, sep)
    IN IF k = 0 THEN <<s>>
       ELSE <<SubSeq(s, 1, k - 1)>> \o Split(SubSeq(s, k + 1, Len(s)), sep)

\* str.split(sep, 1) when sep occurs in s
SplitOnce(s, sep) ==
    LET k == IndexOf(s, sep)
    IN <<SubSeq(s, 1, k - 1), SubSeq(s, k + 1, Len(s))>>

RECURSIVE AllDigits(_)
AllDigits(s) == Len(s) = 0 \/ (IsDigitChar(CharAt(s, 1)) /\ AllDigits(Tail(s)))

\* U+00B2 SUPERSCRIPT TWO.  TLC keeps 7-bit characters only in the states it
\* stores, so the model writes this character as the otherwise unused "\r".
SuperTwo == "\r"

\* characters str.isdigit() accepts although they are no decimal digits;
\* int() rejects them with ValueError
OtherDigits == {SuperTwo}

RECURSIVE AllDigitLike(_)
AllDigitLike(s) ==
    IF Len(s) = 0 THEN TRUE
    ELSE CharAt(s, 1) \in DigitSet \cup OtherDigits /\ AllDigitLike(Tail(s))

\* str.isdigit()
IsDigitStr(s) == Len(s) > 0 /\ AllDigitLike(s)

RECURSIVE DecVal(_)
\* value of a run of decimal digits
DecVal(s) ==
    IF Len(s) = 0 THEN 0
    ELSE 10 * DecVal(SubSeq(s, 1, Len(s) - 1)) + DigitVal(CharAt(s, Len(s)))

RECURSIVE DropUnderscores(_)
DropUnderscores(s) ==
    IF Len(s) = 0 THEN ""
    ELSE (IF CharAt(s, 1) = "_" THEN "" ELSE CharAt(s, 1)) \o DropUnderscores(Tail(s))

RECURSIVE GroupedDigits(_)
\* digits, with single underscores allowed between digits only
GroupedDigits(s) ==
    /\ Len(s) > 0
    /\ IsDigitChar(CharAt(s, 1))
    /\ \/ Len(s) = 1
       \/ GroupedDigits(Tail(s))
       \/ Len(s) > 2 /\ CharAt(s, 2) = "_" /\ GroupedDigits(SubSeq(s, 3, Len(s)))

\* int(s): [ok |-> FALSE] stands for ValueError
PyInt(s) ==
    LET t == Strip(s)
        signed == Len(t) > 0 /\ CharAt(t, 1) \in {"+", "-"}
        body == IF signed THEN Tail(t) ELSE t
        mag == DecVal(DropUnderscores(body))
    IN IF GroupedDigits(body)
       THEN [ok |-> TRUE,
             val |-> IF signed /\ CharAt(t, 1) = "-" THEN 0 - mag ELSE mag]
       ELSE [ok |-> FALSE, val |-> 0]

RECURSIVE Join(_, _)
\* sep.join(seq)
Join(seq, sep) ==
    IF Len(seq) = 0 THEN ""
    ELSE IF Len(seq) = 1 THEN seq[1]
    ELSE seq[1] \o sep \o Join(Tail(seq), sep)

RECURSIVE SplitLinesRaw(_)
SplitLinesRaw(s) ==
    LET k == IndexOf(s, "\n")
    IN IF k = 0 THEN (IF Len(s) = 0 THEN <<>> ELSE <<s>>)
       ELSE <<SubSeq(s, 1, k - 1)>> \o SplitLinesRaw(SubSeq(s, k + 1, Len(s)))

\* str.splitlines(): no trailing empty line, nothing for the empty text
SplitLines(s) == SplitLinesRaw(s)

\* a parsed key=value value: Python int or str
IntVal(n) == [isInt |-> TRUE, n |-> n, s |-> ""]
StrVal(s) == [isInt |-> FALSE, n |-> 0, s |-> s]

SeqsUpTo(S, n) == UNION {[1..k -> S] : k \in 0..n}

(***************************************************************************)
(* build.py, parse_toc: the pieces of one line.                            *)
(***************************************************************************)
RECURSIVE StripAll(_)
StripAll(ps) ==
    IF Len(ps) = 0 THEN <<>> ELSE <<Strip(ps[1])>> \o StripAll(Tail(ps))

RECURSIVE DropEmpty(_)
DropEmpty(ps) ==
    IF Len(ps) = 0 THEN <<>>
    ELSE (IF ps[1] = "" THEN <<>> ELSE <<ps[1]>>) \o DropEmpty(Tail(ps))

\* [p.strip() for p in line.split("|") if p.strip() != ""]
TocParts(line) == DropEmpty(StripAll(Split(line, "|")))

\* int(v) if v.isdigit() else v
CoerceDigits(v) == IF IsDigitStr(v) THEN IntVal(PyInt(v).val) ELSE StrVal(v)

\* int(v) raises ValueError on a v that isdigit() let through
CoerceRaises(v) == IsDigitStr(v) /\ ~PyInt(v).ok

\* the kv loop raises on the first token whose value int() rejects
KvRaises(tokens) ==
    \E i \in 1..Len(tokens) :
        /\ IndexOf(tokens[i], "=") > 0
        /\ CoerceRaises(Strip(SplitOnce(tokens[i], "=")[2]))

RECURSIVE KvRaw(_, _)
\* the dict that "k, v = p.split("=", 1) ... kv[k.strip()] = ..." fills from
\* the tokens in order, read at key: the last token with that key decides
KvRaw(tokens, key) ==
    IF Len(tokens) = 0 THEN [found |-> FALSE, raw |-> ""]
    ELSE LET p == tokens[Len(tokens)]
             rest == SubSeq(tokens, 1, Len(tokens) - 1)
         IN IF IndexOf(p, "=") > 0 /\ Strip(SplitOnce(p, "=")[1]) = key
            THEN [found |-> TRUE, raw |-> Strip(SplitOnce(p, "=")[2])]
            ELSE KvRaw(rest, key)

\* kv.get(key, default) in build.py
KvGet(tokens, key, default) ==
    IF KvRaw(tokens, key).found
    THEN CoerceDigits(KvRaw(tokens, key).raw)
    ELSE default

\* parts[3:]
KvTokens(parts) == SubSeq(parts, 4, Len(parts))

EntryStartShifted(parts) ==
    LET v == KvGet(KvTokens(parts), "start", IntVal(1))
    IN IF v.isInt THEN IntVal(v.n - offset) ELSE v

\* kv.get("start", 1)
EntryStart(parts) == KvGet(KvTokens(parts), "start", IntVal(1))

EntryEndDefaultOne(parts) == KvGet(KvTokens(parts), "end", IntVal(1))

\* kv.get("end", kv.get("start", 1))
EntryEnd(parts) ==
    KvGet(KvTokens(parts), "end", KvGet(KvTokens(parts), "start", IntVal(1)))

TocSection(parts) ==
    [code |-> parts[2], title |-> parts[3],
     start |-> EntryStart(parts), end |-> EntryEnd(parts)]

TocChapter(parts) ==
    [code |-> parts[2], title |-> parts[3],
     start |-> EntryStart(parts), end |-> EntryEnd(parts), sections |-> <<>>]

OffsetKept(parts) == offset

\* try: offset = int(parts[1])  except ValueError: pass
OffsetAfter(parts) ==
    IF PyInt(parts[2]).ok THEN PyInt(parts[2]).val ELSE offset

(***************************************************************************)
(* build.py, parse_toc as a machine: one step per line of the file.        *)
(***************************************************************************)
NoToc == [given |-> FALSE, exists |-> FALSE, readable |-> FALSE, text |-> ""]
MissingToc == [given |-> TRUE, exists |-> FALSE, readable |-> FALSE, text |-> ""]
TocText(t) == [given |-> TRUE, exists |-> TRUE, readable |-> TRUE, text |-> t]
\* a path that exists and that open() refuses: a directory, a file without
\* read permission
UnreadableToc == [given |-> TRUE, exists |-> TRUE, readable |-> FALSE, text |-> ""]

Line == Strip(lines[lineNo])
Parts == TocParts(Line)
Kind == Upper(Parts[1])
InLoop == pc = "loop" /\ lineNo <= Len(lines)
IsBlankOrComment(line) == line = "" \/ StartsWith(line, "#")
Advance == lineNo' = lineNo + 1 /\ pc' = "loop"

TocAbsentUnchecked ==
    /\ pc = "start"
    /\ ~toc_file.given \/ ~toc_file.exists
    /\ pc' = IF toc_file.given THEN "raised" ELSE "done"
    /\ UNCHANGED <<tocVars, fsVars, page_info>>

\* if not toc_file or not toc_file.exists(): return result, offset
TocAbsent ==
    /\ pc = "start"
    /\ ~toc_file.given \/ ~toc_file.exists
    /\ pc' = "done"
    /\ UNCHANGED <<tocVars, fsVars, page_info>>

\* toc_file.read_text(...).splitlines()
TocRead ==
    /\ pc = "start"
    /\ toc_file.given /\ toc_file.exists /\ toc_file.readable
    /\ lines' = SplitLines(toc_file.text)
    /\ lineNo' = 1
    /\ pc' = "loop"
    /\ UNCHANGED <<toc_file, chapters, offset, current_chapter, fsVars, page_info>>

\* toc_file.read_text(...) raises OSError out of parse_toc
TocOSError ==
    /\ pc = "start"
    /\ toc_file.given /\ toc_file.exists /\ ~toc_file.readable
    /\ pc' = "raised"
    /\ UNCHANGED <<tocVars, fsVars, page_info>>

\* if not line or line.startswith("#"): continue
TocSkip ==
    /\ InLoop
    /\ IsBlankOrComment(Line)
    /\ Advance
    /\ UNCHANGED <<toc_file, lines, chapters, offset, current_chapter, fsVars, page_info>>

\* if not parts: continue
TocNoParts ==
    /\ InLoop
    /\ ~IsBlankOrComment(Line)
    /\ Parts = <<>>
    /\ Advance
    /\ UNCHANGED <<toc_file, lines, chapters, offset, current_chapter, fsVars, page_info>>

HasRecord == InLoop /\ ~IsBlankOrComment(Line) /\ Parts # <<>>
IsOffsetRecord == Kind = "OFFSET" /\ Len(Parts) >= 2
IsChapterRecord == Kind = "CHAPTER" /\ Len(Parts) >= 3
IsSectionRecord == Kind = "SECTION" /\ Len(Parts) >= 3 /\ current_chapter # 0

TocOffset ==
    /\ HasRecord
    /\ IsOffsetRecord
    /\ offset' = OffsetAfter(Parts)
    /\ Advance
    /\ UNCHANGED <<toc_file, lines, chapters, current_chapter, fsVars, page_info>>

TocChapterLine ==
    /\ HasRecord
    /\ ~IsOffsetRecord /\ IsChapterRecord
    /\ ~KvRaises(KvTokens(Parts))
    /\ chapters' = Append(chapters, TocChapter(Parts))
    /\ current_chapter' = Len(chapters) + 1
    /\ Advance
    /\ UNCHANGED <<toc_file, lines, offset, fsVars, page_info>>

TocSectionLineFirst ==
    /\ HasRecord
    /\ ~IsOffsetRecord /\ ~IsChapterRecord /\ IsSectionRecord
    /\ ~KvRaises(KvTokens(Parts))
    /\ chapters' = [chapters EXCEPT ![1].sections = Append(@, TocSection(Parts))]
    /\ Advance
    /\ UNCHANGED <<toc_file, lines, offset, current_chapter, fsVars, page_info>>

TocSectionLine ==
    /\ HasRecord
    /\ ~IsOffsetRecord /\ ~IsChapterRecord /\ IsSectionRecord
    /\ ~KvRaises(KvTokens(Parts))
    /\ chapters' = [chapters EXCEPT ![current_chapter].sections =
                                        Append(@, TocSection(Parts))]
    /\ Advance
    /\ UNCHANGED <<toc_file, lines, offset, current_chapter, fsVars, page_info>>

\* kv[k.strip()] = int(v) raises ValueError out of parse_toc
TocValueError ==
    /\ HasRecord
    /\ ~IsOffsetRecord /\ (IsChapterRecord \/ IsSectionRecord)
    /\ KvRaises(KvTokens(Parts))
    /\ pc' = "raised"
    /\ UNCHANGED <<tocVars, fsVars, page_info>>

TocOtherClosesChapter ==
    /\ HasRecord
    /\ ~IsOffsetRecord /\ ~IsChapterRecord /\ ~IsSectionRecord
    /\ current_chapter' = 0
    /\ Advance
    /\ UNCHANGED <<toc_file, lines, chapters, offset, fsVars, page_info>>

\* a record that matches none of the three ifs falls off the loop body
TocOther ==
    /\ HasRecord
    /\ ~IsOffsetRecord /\ ~IsChapterRecord /\ ~IsSectionRecord
    /\ Advance
    /\ UNCHANGED <<toc_file, lines, chapters, offset, current_chapter, fsVars, page_info>>

\* return result, offset
TocReturn ==
    /\ pc = "loop"
    /\ lineNo > Len(lines)
    /\ pc' = "done"
    /\ UNCHANGED <<tocVars, fsVars, page_info>>

\* the TOC lines the model's files are made of
BuildTocLines ==
    {"# offset=3", "OFFSET|2", "OFFSET|x", "CHAPTER|C1|Intro|start=5|end=10",
     "CHAPTER|C2|Two", "CHAPTER|C1|Intro", "SECTION|S1|Sub|start=3", " section | S2 | Two | start = 7 ",
     "", "|", "NOTE|a|b"}

BuildTocFiles ==
    {NoToc, MissingToc} \cup
    {TocText(Join(ls, "\n")) : ls \in SeqsUpTo(BuildTocLines, MaxLines)}

NoBook == [name |-> "", exists |-> FALSE, entries |-> <<>>]

\* main has not run: no BOOKS_ROOT listing, no list of books, no count
NoMain ==
    /\ books_root = NoBook
    /\ books = <<>>
    /\ bookNo = 0
    /\ success = 0

\* index-builder.py has not run
NoIndex ==
    /\ root = <<>>
    /\ fileNo = 0
    /\ groups = <<>>
    /\ ordered = <<>>

\* no repository: find_repo_root finds no .git
NoGit ==
    [repo |-> FALSE, origin |-> "", current |-> "", locals |-> {}, remotes |-> <<>>,
     remote_head |-> "", dirty |-> FALSE]

\* push.py has not run
NoPush ==
    /\ git = NoGit
    /\ cmds = <<>>
    /\ default_branch = ""

\* of the scripts, only build.py or looker-build.py runs
NoOther == NoIndex /\ NoPush

BUILD == "build.py"
LOOKER == "looker-build.py"

\* script s starts: no TOC file chosen yet, nothing written yet
Started(s) ==
    /\ script = s
    /\ toc_path = "None"
    /\ written = <<>>
    /\ NoMain
    /\ NoOther

TocInit ==
    /\ toc_file \in BuildTocFiles
    /\ lines = <<>>
    /\ pc = "start"
    /\ lineNo = 0
    /\ chapters = <<>>
    /\ offset = 0
    /\ current_chapter = 0
    /\ book_dir = NoBook
    /\ pages_folder = "None"
    /\ images = <<>>
    /\ page_info = <<>>
    /\ Started(BUILD)
    /\ template_exists = TRUE

TocNext ==
    \/ TocAbsent
    \/ TocRead
    \/ TocSkip
    \/ TocNoParts
    \/ TocOffset
    \/ TocChapterLine
    \/ TocSectionLine
    \/ TocOther
    \/ TocReturn

\* parse_toc of build.py on every file of BuildTocFiles; no line of these
\* files carries a character of OtherDigits, so TocValueError has no step
SpecToc == TocInit /\ [][TocNext]_vars

\* lines at the edges of the grammar: short records, an unknown kind, values
\* that are not plain digits, a section before any chapter
EdgeTocLines ==
    {"SECTION|S1|Sub|start=1", "CHAPTER|C1|Intro", "CHAPTER||C9", "SECTION|S9|",
     "NOTE|a|b", "CHAPTER|C4|Neg|start=-5|end=a=b", "SECTION|S4|Mix|start=1a",
     "CHAPTER|C5|Sq|start=" \o SuperTwo, "OFFSET|2", "", "|"}

EdgeTocFiles ==
    {NoToc} \cup {TocText(Join(ls, "\n")) : ls \in SeqsUpTo(EdgeTocLines, MaxLines)}

TocEdgeInit ==
    /\ toc_file \in EdgeTocFiles
    /\ lines = <<>>
    /\ pc = "start"
    /\ lineNo = 0
    /\ chapters = <<>>
    /\ offset = 0
    /\ current_chapter = 0
    /\ book_dir = NoBook
    /\ pages_folder = "None"
    /\ images = <<>>
    /\ page_info = <<>>
    /\ Started(BUILD)
    /\ template_exists = TRUE

TocEdgeNext ==
    \/ TocNext
    \/ TocValueError

\* parse_toc of build.py on every file of EdgeTocFiles
SpecTocEdge == TocEdgeInit /\ [][TocEdgeNext]_vars

(***************************************************************************)
(* Claims about parse_toc of build.py, checked under SpecToc.              *)
(***************************************************************************)
\* the lines the loop has finished with
Processed == IF pc \in {"loop", "raised"} THEN lineNo - 1 ELSE Len(lines)

\* the grammar's offset directive: "#" WS* "offset" WS* "=" WS* INTEGER
DirectiveValue(l) ==
    LET t == Strip(l)
        a == IF StartsWith(t, "#") THEN LStrip(Tail(t)) ELSE "x"
        b == IF StartsWith(a, "offset") THEN LStrip(SubSeq(a, 7, Len(a))) ELSE "x"
    IN IF StartsWith(b, "=") THEN PyInt(Tail(b)) ELSE [ok |-> FALSE, val |-> 0]

\* a line written OFFSET|<int>
RecordValue(l) ==
    LET ps == Split(Strip(l), "|")
    IN IF Len(ps) >= 2 /\ Upper(Strip(ps[1])) = "OFFSET"
       THEN PyInt(ps[2])
       ELSE [ok |-> FALSE, val |-> 0]

IsChapterForm(l) ==
    LET ps == TocParts(Strip(l))
    IN ~StartsWith(Strip(l), "#") /\ Len(ps) >= 3 /\ Upper(ps[1]) = "CHAPTER"

IsSectionForm(l) ==
    LET ps == TocParts(Strip(l))
    IN ~StartsWith(Strip(l), "#") /\ Len(ps) >= 3 /\ Upper(ps[1]) = "SECTION"

RECURSIVE ChapterIdx(_)
\* the CHAPTER lines among the first n lines
ChapterIdx(n) ==
    IF n = 0 THEN <<>>
    ELSE ChapterIdx(n - 1) \o (IF IsChapterForm(lines[n]) THEN <<n>> ELSE <<>>)

RECURSIVE SectionIdx(_, _)
\* the SECTION lines among lines lo+1 .. hi
SectionIdx(lo, hi) ==
    IF hi <= lo THEN <<>>
    ELSE SectionIdx(lo, hi - 1) \o (IF IsSectionForm(lines[hi]) THEN <<hi>> ELSE <<>>)

\* start and end as the line writes them, or their defaults
WrittenStart(l) == KvGet(KvTokens(TocParts(Strip(l))), "start", IntVal(1))
WrittenEnd(l) == KvGet(KvTokens(TocParts(Strip(l))), "end", WrittenStart(l))

AsWritten(e, l) == e.start = WrittenStart(l) /\ e.end = WrittenEnd(l)

\* C2: at every point of the parse, whatever the offset read so far, every
\* chapter and section emitted carries the start and end its own line writes
\* (or the defaults): the offset is never added to or subtracted from them.
C2_StartEndAsWritten ==
    LET n == Processed
        idx == ChapterIdx(n)
    IN /\ Len(chapters) = Len(idx)
       /\ \A k \in 1..Len(chapters) :
            LET hi == IF k < Len(idx) THEN idx[k + 1] - 1 ELSE n
                sidx == SectionIdx(idx[k], hi)
                secs == chapters[k].sections
            IN /\ AsWritten(chapters[k], lines[idx[k]])
               /\ Len(secs) = Len(sidx)
               /\ \A j \in 1..Len(secs) : AsWritten(secs[j], lines[sidx[j]])

\* a file that declares offset 2 has produced a chapter 5..10 with a section 3..3
C2_Witness ==
    /\ pc = "done"
    /\ offset = 2
    /\ Len(chapters) = 1
    /\ chapters[1].start = IntVal(5) /\ chapters[1].end = IntVal(10)
    /\ Len(chapters[1].sections) = 1
    /\ chapters[1].sections[1].start = IntVal(3)
    /\ chapters[1].sections[1].end = IntVal(3)

(***************************************************************************)
(* Claims about the structure parse_toc of build.py builds, checked under  *)
(* SpecTocEdge and SpecToc.                                                *)
(***************************************************************************)
\* code and title as the line writes them: its second and third token
Named(e, l) ==
    LET ps == TocParts(Strip(l))
    IN e.code = ps[2] /\ e.title = ps[3]

\* C11: at every point of the parse the chapter sequence is exactly the
\* accepted CHAPTER lines read so far, in file order, and the sections of
\* each chapter are exactly the accepted SECTION lines between its line and
\* the next accepted CHAPTER line, in file order; a SECTION line before the
\* first accepted CHAPTER line is in no chapter.
C11_ChaptersInFileOrder ==
    LET n == Processed
        idx == ChapterIdx(n)
    IN /\ Len(chapters) = Len(idx)
       /\ current_chapter = Len(idx)
       /\ \A k \in 1..Len(chapters) :
            LET hi == IF k < Len(idx) THEN idx[k + 1] - 1 ELSE n
                sidx == SectionIdx(idx[k], hi)
                secs == chapters[k].sections
            IN /\ Named(chapters[k], lines[idx[k]])
               /\ Len(secs) = Len(sidx)
               /\ \A j \in 1..Len(secs) : Named(secs[j], lines[sidx[j]])

\* a section line ahead of the first chapter was dropped, and the section
\* after that chapter went into it
C11_Witness ==
    /\ pc = "done"
    /\ lines = <<"SECTION|S1|Sub|start=1", "CHAPTER|C1|Intro", "SECTION|S4|Mix|start=1a">>
    /\ Len(chapters) = 1
    /\ Len(chapters[1].sections) = 1
    /\ chapters[1].sections[1].code = "S4"

\* a record line the grammar gives no meaning: its kind is none of the three,
\* or it is a CHAPTER or SECTION line with fewer than three non-empty tokens
IsIgnoredForm(l) ==
    LET ps == TocParts(Strip(l))
    IN /\ ~StartsWith(Strip(l), "#")
       /\ ps # <<>>
       /\ \/ Upper(ps[1]) \notin {"CHAPTER", "SECTION", "OFFSET"}
          \/ Upper(ps[1]) \in {"CHAPTER", "SECTION"} /\ Len(ps) < 3

\* C12: reading a line of unrecognized kind, or a CHAPTER or SECTION line
\* with fewer than three non-empty trimmed tokens, raises nothing and leaves
\* the chapters with all their sections, the offset and the current chapter
\* as they were; the loop goes on with the next line.
C12_IgnoredLineChangesNothing ==
    [][(InLoop /\ IsIgnoredForm(lines[lineNo])) =>
          /\ chapters' = chapters
          /\ offset' = offset
          /\ current_chapter' = current_chapter
          /\ pc' = "loop" /\ lineNo' = lineNo + 1]_vars

\* a short CHAPTER line was read between a chapter and its section, and the
\* section still went into that chapter
C12_Witness ==
    /\ pc = "done"
    /\ lines = <<"CHAPTER|C1|Intro", "CHAPTER||C9", "SECTION|S4|Mix|start=1a">>
    /\ Len(chapters) = 1
    /\ current_chapter = 1
    /\ Len(chapters[1].sections) = 1

\* P holds of every chapter and section built so far and the line it came from
EveryEntry(P(_, _)) ==
    LET n == Processed
        idx == ChapterIdx(n)
    IN /\ Len(chapters) = Len(idx)
       /\ \A k \in 1..Len(chapters) :
            LET hi == IF k < Len(idx) THEN idx[k + 1] - 1 ELSE n
                sidx == SectionIdx(idx[k], hi)
                secs == chapters[k].sections
            IN /\ P(chapters[k], lines[idx[k]])
               /\ Len(secs) = Len(sidx)
               /\ \A j \in 1..Len(secs) : P(secs[j], lines[sidx[j]])

\* the line writes a token key=...
HasKey(l, key) == KvRaw(KvTokens(TocParts(Strip(l))), key).found

\* the value the line writes for key
WrittenValue(l, key) == CoerceDigits(KvRaw(KvTokens(TocParts(Strip(l))), key).raw)

StartEndDefaults(e, l) ==
    /\ e.start = (IF HasKey(l, "start") THEN WrittenValue(l, "start") ELSE IntVal(1))
    /\ e.end = (IF HasKey(l, "end") THEN WrittenValue(l, "end") ELSE e.start)

\* C13: the start of every chapter and section is the value of its line's
\* 'start' key, or 1 when the line has none; its end is the value of the
\* 'end' key, or its own resolved start when the line has none.
C13_StartEndDefaults == EveryEntry(StartEndDefaults)

\* "CHAPTER|C1|Intro" then "SECTION|S1|Sub|start=3": chapter 1..1, section 3..3
C13_Witness ==
    /\ pc = "done"
    /\ lines = <<"CHAPTER|C1|Intro", "SECTION|S1|Sub|start=3">>
    /\ chapters[1].start = IntVal(1) /\ chapters[1].end = IntVal(1)
    /\ chapters[1].sections[1].start = IntVal(3)
    /\ chapters[1].sections[1].end = IntVal(3)

\* the text after the first "=" of the line's token for key, trimmed
WrittenText(l, key) == KvRaw(KvTokens(TocParts(Strip(l))), key).raw

\* an integer exactly when the text is decimal digits only, else the text
DigitsOnlyValue(t) ==
    IF Len(t) > 0 /\ AllDigits(t) THEN IntVal(DecVal(t)) ELSE StrVal(t)

ValuesAsClaimed(e, l) ==
    /\ HasKey(l, "start") => e.start = DigitsOnlyValue(WrittenText(l, "start"))
    /\ HasKey(l, "end") => e.end = DigitsOnlyValue(WrittenText(l, "end"))

\* C14: every key=value token is split at its first "=" only, and its value
\* is an integer exactly when it consists solely of decimal digits and the
\* text itself otherwise: no value stops the parse, and every entry built
\* carries for start and end the value so read.
C14_DigitsOnlyBecomeInt ==
    /\ pc # "raised"
    /\ EveryEntry(ValuesAsClaimed)

\* the part of C14 that holds of the entries that are built: "start=-5" and
\* "start=1a" stay text, "end=a=b" is split at its first "="
C14_BuiltValues == EveryEntry(ValuesAsClaimed)

(***************************************************************************)
(* archive/looker-build.py, parse_toc and the page-info loop of            *)
(* build_looker.                                                           *)
(***************************************************************************)
\* [p.strip() for p in line.split('|')]
LkParts(line) == StripAll(Split(line, "|"))

\* try: kv[k] = int(v)  except ValueError: kv[k] = v
CoerceInt(v) == IF PyInt(v).ok THEN IntVal(PyInt(v).val) ELSE StrVal(v)

\* kv.get(key, default) in looker-build.py
LkKvGet(tokens, key, default) ==
    IF KvRaw(tokens, key).found
    THEN CoerceInt(KvRaw(tokens, key).raw)
    ELSE default

\* start_page = kv.get("start", 1)
LkStartPage(parts) == LkKvGet(KvTokens(parts), "start", IntVal(1))

\* kv.get("end", start_page)
LkEndPage(parts) == LkKvGet(KvTokens(parts), "end", LkStartPage(parts))

\* "start_page - offset" and "kv.get("end", start_page) - offset" raise
\* TypeError when the value is a str
LkRaises(parts) == ~LkStartPage(parts).isInt \/ ~LkEndPage(parts).isInt

LkEntryStartRaw(parts) == LkStartPage(parts)

\* book_start_page = start_page - offset
LkEntryStart(parts) == IntVal(LkStartPage(parts).n - offset)

\* kv.get("end", start_page) - offset
LkEntryEnd(parts) == IntVal(LkEndPage(parts).n - offset)

LkSection(parts) ==
    [code |-> parts[2], title |-> parts[3],
     start |-> LkEntryStart(parts), end |-> LkEntryEnd(parts)]

LkChapter(parts) ==
    [code |-> parts[2], title |-> parts[3],
     start |-> LkEntryStart(parts), end |-> LkEntryEnd(parts), sections |-> <<>>]

RECURSIVE LkScanOffset(_, _)
\* the first loop: every line starting with '# offset=' assigns
\* int(line.split('=')[1].strip()) unless that raises ValueError
LkScanOffset(ls, off) ==
    IF Len(ls) = 0 THEN off
    ELSE LET l == Strip(ls[1])
             v == PyInt(Strip(Split(l, "=")[2]))
         IN LkScanOffset(Tail(ls),
                         IF StartsWith(l, "# offset=") /\ v.ok THEN v.val ELSE off)

PageRecordOffByOne(i) == [image_index |-> i, book_page |-> i - offset]

\* {"image_index": i, "book_page": i + 1 - toc_data.get("offset", 0)}
PageRecord(i) == [image_index |-> i, book_page |-> i + 1 - offset]

LkLine == Strip(lines[lineNo])
LkPartsNow == LkParts(LkLine)
LkKind == Upper(LkPartsNow[1])
LkHasRecord == InLoop /\ ~IsBlankOrComment(LkLine)
LkIsChapter == LkKind = "CHAPTER" /\ Len(LkPartsNow) >= 3
LkIsSection == LkKind = "SECTION" /\ Len(LkPartsNow) >= 3

\* if not toc_file or not toc_file.exists(): return result
LkAbsent ==
    /\ pc = "start"
    /\ ~toc_file.given \/ ~toc_file.exists
    /\ pc' = "parsed"
    /\ UNCHANGED <<tocVars, fsVars, page_info>>

\* read the lines and run the offset loop over all of them
LkRead ==
    /\ pc = "start"
    /\ toc_file.given /\ toc_file.exists
    /\ lines' = SplitLines(toc_file.text)
    /\ offset' = LkScanOffset(lines', 0)
    /\ lineNo' = 1
    /\ pc' = "loop"
    /\ UNCHANGED <<toc_file, chapters, current_chapter, fsVars, page_info>>

LkSkip ==
    /\ InLoop
    /\ IsBlankOrComment(LkLine)
    /\ Advance
    /\ UNCHANGED <<toc_file, lines, chapters, offset, current_chapter, fsVars, page_info>>

LkChapterLine ==
    /\ LkHasRecord
    /\ LkIsChapter
    /\ ~LkRaises(LkPartsNow)
    /\ chapters' = Append(chapters, LkChapter(LkPartsNow))
    /\ current_chapter' = Len(chapters) + 1
    /\ Advance
    /\ UNCHANGED <<toc_file, lines, offset, fsVars, page_info>>

LkSectionLine ==
    /\ LkHasRecord
    /\ ~LkIsChapter /\ LkIsSection
    /\ current_chapter # 0
    /\ ~LkRaises(LkPartsNow)
    /\ chapters' = [chapters EXCEPT ![current_chapter].sections =
                                        Append(@, LkSection(LkPartsNow))]
    /\ Advance
    /\ UNCHANGED <<toc_file, lines, offset, current_chapter, fsVars, page_info>>

\* the subtraction raises TypeError: parse_toc is left by the exception
LkTypeError ==
    /\ LkHasRecord
    /\ LkIsChapter \/ (LkIsSection /\ current_chapter # 0)
    /\ LkRaises(LkPartsNow)
    /\ pc' = "raised"
    /\ UNCHANGED <<tocVars, fsVars, page_info>>

\* a SECTION before any chapter (continue), or no CHAPTER/SECTION record
LkOther ==
    /\ LkHasRecord
    /\ ~LkIsChapter
    /\ ~LkIsSection \/ current_chapter = 0
    /\ Advance
    /\ UNCHANGED <<toc_file, lines, chapters, offset, current_chapter, fsVars, page_info>>

\* return result
LkReturn ==
    /\ pc = "loop"
    /\ lineNo > Len(lines)
    /\ pc' = "parsed"
    /\ UNCHANGED <<tocVars, fsVars, page_info>>

\* one turn of "for i, img in enumerate(images)"
MapPage ==
    /\ pc = "parsed"
    /\ Len(page_info) < Len(images)
    /\ page_info' = Append(page_info, PageRecord(Len(page_info)))
    /\ UNCHANGED <<pc, tocVars, fsVars>>

MapDone ==
    /\ pc = "parsed"
    /\ Len(page_info) = Len(images)
    /\ pc' = "done"
    /\ UNCHANGED <<tocVars, fsVars, page_info>>

RECURSIVE Str(_)
\* str(n) for n >= 0
Str(n) == IF n < 10 THEN CharAt(Digits, n + 1)
          ELSE Str(n \div 10) \o CharAt(Digits, (n % 10) + 1)

\* the sorted page list find_images returned: 1.png .. n.png
PageList(n) == [i \in 1..n |-> Str(i) \o ".png"]

LookerTocLines ==
    {"# offset=3", "# offset=x", "CHAPTER|C1|Intro|start=5|end=10",
     "CHAPTER|C2|Two", "SECTION|S1|Sub|start=3", "SECTION|S2|Bad|start=abc",
     "NOTE|a|b", ""}

LookerTocFiles ==
    {NoToc, MissingToc} \cup
    {TocText(Join(ls, "\n")) : ls \in SeqsUpTo(LookerTocLines, MaxLines)}

LookerInit ==
    /\ toc_file \in LookerTocFiles
    /\ lines = <<>>
    /\ pc = "start"
    /\ lineNo = 0
    /\ chapters = <<>>
    /\ offset = 0
    /\ current_chapter = 0
    /\ book_dir = NoBook
    /\ pages_folder = "None"
    /\ images \in {PageList(n) : n \in 1..MaxPages}
    /\ page_info = <<>>
    /\ Started(LOOKER)
    /\ template_exists = TRUE

LookerNext ==
    \/ LkAbsent
    \/ LkRead
    \/ LkSkip
    \/ LkChapterLine
    \/ LkSectionLine
    \/ LkTypeError
    \/ LkOther
    \/ LkReturn
    \/ MapPage
    \/ MapDone

\* build_looker from parse_toc on, for every file of LookerTocFiles
SpecLooker == LookerInit /\ [][LookerNext]_vars

\* offset comments in the exact and in looser spellings, with well-formed
\* and malformed integers, among the records the second loop tells apart
LookerOffsetLines ==
    {"# offset=3", "# offset=1", "# offset=x", "# offset=7=8", "#offset=3",
     "# offset = 3", "#  offset=3", "CHAPTER|C1|Intro|start=5",
     "SECTION|S1|Sub|start=3", "SECTION|S2|Bad|start=abc", "NOTE|a|b"}

LookerOffsetFiles ==
    {NoToc} \cup
    {TocText(Join(ls, "\n")) : ls \in SeqsUpTo(LookerOffsetLines, MaxLines)}

LookerOffsetInit ==
    /\ toc_file \in LookerOffsetFiles
    /\ lines = <<>>
    /\ pc = "start"
    /\ lineNo = 0
    /\ chapters = <<>>
    /\ offset = 0
    /\ current_chapter = 0
    /\ book_dir = NoBook
    /\ pages_folder = "None"
    /\ images = PageList(1)
    /\ page_info = <<>>
    /\ Started(LOOKER)
    /\ template_exists = TRUE

\* build_looker from parse_toc on, for every file of LookerOffsetFiles
SpecLookerOffset == LookerOffsetInit /\ [][LookerNext]_vars

(***************************************************************************)
(* Claims about looker-build.py, checked under SpecLooker.                 *)
(***************************************************************************)
LkProcessed == IF pc = "start" THEN 0
               ELSE IF pc \in {"loop", "raised"} THEN lineNo - 1
               ELSE Len(lines)

LkChapterForm(l) ==
    LET ps == LkParts(Strip(l))
    IN ~StartsWith(Strip(l), "#") /\ Len(ps) >= 3 /\ Upper(ps[1]) = "CHAPTER"

LkSectionForm(l) ==
    LET ps == LkParts(Strip(l))
    IN ~StartsWith(Strip(l), "#") /\ Len(ps) >= 3 /\ Upper(ps[1]) = "SECTION"

RECURSIVE LkChapterIdx(_)
LkChapterIdx(n) ==
    IF n = 0 THEN <<>>
    ELSE LkChapterIdx(n - 1) \o (IF LkChapterForm(lines[n]) THEN <<n>> ELSE <<>>)

RECURSIVE LkSectionIdx(_, _)
LkSectionIdx(lo, hi) ==
    IF hi <= lo THEN <<>>
    ELSE LkSectionIdx(lo, hi - 1) \o (IF LkSectionForm(lines[hi]) THEN <<hi>> ELSE <<>>)

\* start and end as the line writes them, or their defaults
LkWrittenStart(l) == LkKvGet(KvTokens(LkParts(Strip(l))), "start", IntVal(1))
LkWrittenEnd(l) == LkKvGet(KvTokens(LkParts(Strip(l))), "end", LkWrittenStart(l))

\* entry e carries what line l writes, lowered by k
LkShifted(e, l, k) ==
    /\ e.start = IntVal(LkWrittenStart(l).n - k)
    /\ e.end = IntVal(LkWrittenEnd(l).n - k)

\* every emitted chapter and section carries what its line writes, lowered by k
LkAllShifted(k) ==
    LET n == LkProcessed
        idx == LkChapterIdx(n)
    IN /\ Len(chapters) = Len(idx)
       /\ \A c \in 1..Len(chapters) :
            LET hi == IF c < Len(idx) THEN idx[c + 1] - 1 ELSE n
                sidx == LkSectionIdx(idx[c], hi)
                secs == chapters[c].sections
            IN /\ LkShifted(chapters[c], lines[idx[c]], k)
               /\ Len(secs) = Len(sidx)
               /\ \A j \in 1..Len(secs) : LkShifted(secs[j], lines[sidx[j]], k)

\* C3 as claimed: whatever the document offset, every chapter and section
\* emitted carries the raw start and end its line writes.
C3_RawWhateverOffset == LkAllShifted(0)

\* C3 as amended: every chapter and section emitted carries the integer start
\* and end its line writes (or the defaults) minus the document offset, so
\* the same records give values k lower under offset k than under offset 0.
C3_WrittenMinusOffset == LkAllShifted(offset)

\* under "# offset=3" the chapter written 5..10 came out as 2..7
C3_Witness ==
    /\ pc = "done"
    /\ offset = 3
    /\ Len(chapters) = 1
    /\ chapters[1].start = IntVal(2) /\ chapters[1].end = IntVal(7)
    /\ Len(chapters[1].sections) = 1
    /\ chapters[1].sections[1].start = IntVal(0)

\* C4: the page-info list holds one record per page, in page order, the
\* record at position i being image_index = i, book_page = i + 1 - offset;
\* when the loop is over there are exactly as many records as pages.
C4_PageInfo ==
    /\ Len(page_info) <= Len(images)
    /\ pc = "done" => Len(page_info) = Len(images)
    /\ \A i \in 0..(Len(page_info) - 1) :
          /\ page_info[i + 1].image_index = i
          /\ page_info[i + 1].book_page = i + 1 - offset

\* five pages under offset 3 came out as book pages -2, -1, 0, 1, 2
C4_Witness ==
    /\ pc = "done"
    /\ Len(images) = 5
    /\ offset = 3
    /\ [i \in 1..5 |-> page_info[i].book_page] = <<-2, -1, 0, 1, 2>>

(***************************************************************************)
(* Claims about the offset comment and the exceptions of parse_toc of      *)
(* looker-build.py, checked under SpecLookerOffset and SpecLooker.         *)
(***************************************************************************)
\* the file has been read: the offset loop has run
LkWasRead == lineNo >= 1

\* an offset line, and what it writes after "# offset="
IsOffsetLine(l) == StartsWith(Strip(l), "# offset=")
OffsetText(l) == SubSeq(Strip(l), 10, Len(Strip(l)))
IsWellFormedOffset(l) == IsOffsetLine(l) /\ PyInt(OffsetText(l)).ok

RECURSIVE LastWellFormedOffset(_)
\* the integer of the last well-formed offset line of ls, 0 when there is none
LastWellFormedOffset(ls) ==
    IF Len(ls) = 0 THEN 0
    ELSE IF IsWellFormedOffset(ls[Len(ls)]) THEN PyInt(OffsetText(ls[Len(ls)])).val
    ELSE LastWellFormedOffset(SubSeq(ls, 1, Len(ls) - 1))

\* C15: wherever the offset lines stand among the records, the offset is the
\* integer of the last well-formed one; an offset line whose integer is
\* malformed leaves the offset at the value it had before that line.
C15_LastWellFormedWins == LkWasRead => offset = LastWellFormedOffset(lines)

\* C16: the directive counts with any whitespace after "#" and around "=":
\* the offset is the integer of the last line of the form
\* "#" WS* "offset" WS* "=" WS* INTEGER when no comment line follows it.
C16_AnyWhitespace ==
    LkWasRead =>
        \A i \in 1..Len(lines) :
            (/\ DirectiveValue(lines[i]).ok
             /\ \A j \in (i + 1)..Len(lines) : ~StartsWith(Strip(lines[j]), "#"))
                => offset = DirectiveValue(lines[i]).val

\* C17: parse_toc raises no exception, whatever the TOC text.
C17_NeverRaises == pc # "raised"

(***************************************************************************)
(* The two TOC parsers side by side: parse_toc of build.py and parse_toc   *)
(* of looker-build.py (within build_looker) on the same files.             *)
(***************************************************************************)
ParserTocLines ==
    {"", "|", "OFFSET|2", "CHAPTER|C1|Intro", "SECTION|S1|Sub|start=3",
     "SECTION|S2|Bad|start=abc"}

\* no path, a path to no file, the empty file and files of a few lines
ParserTocFiles ==
    {NoToc, MissingToc} \cup
    {TocText(Join(ls, "\n")) : ls \in SeqsUpTo(ParserTocLines, MaxLines)}

ParsersInit ==
    /\ toc_file \in ParserTocFiles
    /\ lines = <<>>
    /\ pc = "start"
    /\ lineNo = 0
    /\ chapters = <<>>
    /\ offset = 0
    /\ current_chapter = 0
    /\ book_dir = NoBook
    /\ pages_folder = "None"
    /\ page_info = <<>>
    /\ template_exists = TRUE
    /\ \/ Started(BUILD) /\ images = <<>>
       \/ Started(LOOKER) /\ images = PageList(1)

ParsersNext ==
    \/ script = BUILD /\ TocNext
    \/ script = LOOKER /\ LookerNext

\* either parser on every file of ParserTocFiles
SpecParsers == ParsersInit /\ [][ParsersNext]_vars

\* the TOC is absent (no path, or a path to no file) or is the empty file
IsAbsentOrEmpty == ~toc_file.given \/ ~toc_file.exists \/ toc_file.text = ""

\* C18: given an absent TOC or an empty TOC file, either parser raises
\* nothing and has, at every point up to and after its return, the empty
\* chapter sequence and offset 0.
C18_AbsentOrEmptyGivesNothing ==
    IsAbsentOrEmpty => (pc # "raised" /\ chapters = <<>> /\ offset = 0)

\* looker-build.py has returned from parse_toc on a path to no file
C18_Witness ==
    /\ script = LOOKER
    /\ toc_file = MissingToc
    /\ pc \in {"parsed", "done"}
    /\ chapters = <<>> /\ offset = 0

(***************************************************************************)
(* build.py, find_images and find_pages_folder.  A directory is the        *)
(* sequence of its entries in the order iterdir() delivers them; an entry  *)
(* is [name, is_dir, entries], entries being a subdirectory's own listing. *)
(***************************************************************************)
IMAGE_EXTS == {".webp", ".jpg", ".jpeg", ".png", ".gif"}
THUMB_NAMES == {"thumbs", "thumb", "thumbnails", "tn"}
NoDigitKey == 999999

RECURSIVE LastIndexFrom(_, _, _)
\* 1-based position of the last c in s at or before position i, 0 when absent
LastIndexFrom(s, c, i) ==
    IF i = 0 THEN 0
    ELSE IF CharAt(s, i) = c THEN i
    ELSE LastIndexFrom(s, c, i - 1)

\* PurePath.suffix: from the last dot on, unless the name starts or ends with it
Suffix(name) ==
    LET k == LastIndexFrom(name, ".", Len(name))
    IN IF 1 < k /\ k < Len(name) THEN SubSeq(name, k, Len(name)) ELSE ""

\* f.is_file() and f.suffix.lower() in IMAGE_EXTS
IsImage(e) == ~e.is_dir /\ Lower(Suffix(e.name)) \in IMAGE_EXTS

RECURSIVE FirstDigit(_, _)
\* position of the first decimal digit of s at or after i, 0 when there is none
FirstDigit(s, i) ==
    IF i > Len(s) THEN 0
    ELSE IF IsDigitChar(CharAt(s, i)) THEN i
    ELSE FirstDigit(s, i + 1)

RECURSIVE DigitRunEnd(_, _)
\* last position of the digit run that starts at i
DigitRunEnd(s, i) ==
    IF i < Len(s) /\ IsDigitChar(CharAt(s, i + 1)) THEN DigitRunEnd(s, i + 1) ELSE i

\* re.search(r"(\d+)", name): the matched text, "" for no match
DigitRun(name) ==
    LET k == FirstDigit(name, 1)
    IN IF k = 0 THEN "" ELSE SubSeq(name, k, DigitRunEnd(name, k))

\* (int(m.group(1)), p.name.lower()) if m else (999999, p.name.lower())
num_key(name) ==
    IF DigitRun(name) # ""
    THEN <<PyInt(DigitRun(name)).val, Lower(name)>>
    ELSE <<NoDigitKey, Lower(name)>>

name_key(name) == <<0, Lower(name)>>

RECURSIVE StrLess(_, _)
\* a < b for two str, by code point
StrLess(a, b) ==
    IF Len(b) = 0 THEN FALSE
    ELSE IF Len(a) = 0 THEN TRUE
    ELSE IF CharAt(a, 1) = CharAt(b, 1) THEN StrLess(Tail(a), Tail(b))
    ELSE Ord(CharAt(a, 1)) < Ord(CharAt(b, 1))

\* a < b for two (int, str) tuples
KeyLess(a, b) == a[1] < b[1] \/ (a[1] = b[1] /\ StrLess(a[2], b[2]))

RECURSIVE InsertByKey(_, _)
\* x put into the sorted sequence s behind every element that is not greater
InsertByKey(x, s) ==
    IF Len(s) = 0 THEN <<x>>
    ELSE IF KeyLess(x[1], s[1][1]) THEN <<x>> \o s
    ELSE <<s[1]>> \o InsertByKey(x, Tail(s))

RECURSIVE SortByKey(_)
\* list.sort(key=...) over <<key, item>> pairs: ascending by key, and stable
\* (items with equal keys keep the order they came in)
SortByKey(pairs) ==
    IF Len(pairs) = 0 THEN <<>>
    ELSE InsertByKey(pairs[Len(pairs)], SortByKey(SubSeq(pairs, 1, Len(pairs) - 1)))

RECURSIVE ImageNames(_)
\* [f for f in folder.iterdir() if f.is_file() and f.suffix.lower() in IMAGE_EXTS]
ImageNames(entries) ==
    IF Len(entries) = 0 THEN <<>>
    ELSE (IF IsImage(entries[1]) THEN <<entries[1].name>> ELSE <<>>)
         \o ImageNames(Tail(entries))

find_images_by_name(folder) ==
    IF ~folder.exists THEN <<>>
    ELSE LET found == ImageNames(folder.entries)
             sorted == SortByKey([i \in 1..Len(found) |-> <<name_key(found[i]), found[i]>>])
         IN [i \in 1..Len(found) |-> sorted[i][2]]

\* find_images(folder): the image files of the folder, sorted by num_key
find_images(folder) ==
    IF ~folder.exists THEN <<>>
    ELSE LET found == ImageNames(folder.entries)
             sorted == SortByKey([i \in 1..Len(found) |-> <<num_key(found[i]), found[i]>>])
         IN [i \in 1..Len(found) |-> sorted[i][2]]

\* a subdirectory entry seen as a folder
AsFolder(e) == [name |-> e.name, exists |-> TRUE, entries |-> e.entries]

IsThumbsLikeExact(name) == name \in THUMB_NAMES

\* sub.name.lower() in {"thumbs", "thumb", "thumbnails", "tn"}
IsThumbsLike(name) == Lower(name) \in THUMB_NAMES

RECURSIVE FirstSubWithImages(_)
\* for sub in book_dir.iterdir(): the first directory that is not thumbs-like
\* and has images, "None" when the loop ends without one
FirstSubWithImages(entries) ==
    IF Len(entries) = 0 THEN "None"
    ELSE IF /\ entries[1].is_dir
            /\ ~IsThumbsLike(entries[1].name)
            /\ find_images(AsFolder(entries[1])) # <<>>
         THEN entries[1].name
         ELSE FirstSubWithImages(Tail(entries))

find_pages_folder_subs_first(book) ==
    IF ~book.exists THEN "None"
    ELSE IF FirstSubWithImages(book.entries) # "None"
         THEN FirstSubWithImages(book.entries)
    ELSE IF find_images(book) # <<>> THEN "."
    ELSE "None"

\* find_pages_folder(book_dir): "." is book_dir itself, "None" is None
find_pages_folder(book) ==
    IF find_images(book) # <<>> THEN "."
    ELSE IF ~book.exists THEN "None"
    ELSE FirstSubWithImages(book.entries)

RECURSIVE EntryNamed(_, _)
EntryNamed(entries, name) ==
    IF entries[1].name = name THEN entries[1] ELSE EntryNamed(Tail(entries), name)

\* the folder a result of find_pages_folder stands for
PagesFolder(book, found) ==
    IF found = "." THEN book ELSE AsFolder(EntryNamed(book.entries, found))

(***************************************************************************)
(* build.py, build_viewer up to the image list.                            *)
(***************************************************************************)
\* pages_folder = find_pages_folder(book_dir); if not pages_folder: return False
BvNoPages ==
    /\ pc = "entered"
    /\ find_pages_folder(book_dir) = "None"
    /\ pc' = "failed"
    /\ UNCHANGED <<tocVars, fsVars, page_info>>

BvPages ==
    /\ pc = "entered"
    /\ find_pages_folder(book_dir) # "None"
    /\ pages_folder' = find_pages_folder(book_dir)
    /\ pc' = "resolved"
    /\ UNCHANGED <<tocVars, book_dir, images, page_info, outVars>>

\* images = find_images(pages_folder); if not images: return False
BvImages ==
    /\ pc = "resolved"
    /\ images' = find_images(PagesFolder(book_dir, pages_folder))
    /\ pc' = IF images' = <<>> THEN "failed" ELSE "listed"
    /\ UNCHANGED <<tocVars, book_dir, pages_folder, page_info, outVars>>

File(name) == [name |-> name, is_dir |-> FALSE, entries |-> <<>>]
Dir(name, listing) == [name |-> name, is_dir |-> TRUE, entries |-> listing]

FileNames ==
    {"2.jpg", "10.png", "A1.png", "a1.png", "cover.png", "1000000.png",
     "p3.WEBP", "toc.txt"}
SubNames == {"Thumbs", "tn", "pages", "img"}
SubListings == {<<File("1.png")>>, <<File("notes.txt")>>}

DistinctNames(es) == \A i, j \in 1..Len(es) : i # j => es[i].name # es[j].name

\* every listing of up to MaxFiles files and up to MaxSubs subdirectories,
\* in every order of the files and every order of the subdirectories; the
\* files stand before the subdirectories, since find_images reads only the
\* files of a listing and the subfolder loop only its directories
BookDirs ==
    {[name |-> "book", exists |-> FALSE, entries |-> <<>>]} \cup
    {[name |-> "book", exists |-> TRUE, entries |-> fs \o ds] :
        fs \in {f \in SeqsUpTo({File(n) : n \in FileNames}, MaxFiles) : DistinctNames(f)},
        ds \in {d \in SeqsUpTo({Dir(n, l) : n \in SubNames, l \in SubListings}, MaxSubs) :
                    DistinctNames(d)}}

PagesInit ==
    /\ toc_file = NoToc
    /\ lines = <<>>
    /\ pc = "entered"
    /\ lineNo = 0
    /\ chapters = <<>>
    /\ offset = 0
    /\ current_chapter = 0
    /\ book_dir \in BookDirs
    /\ pages_folder = "None"
    /\ images = <<>>
    /\ page_info = <<>>
    /\ Started(BUILD)
    /\ template_exists = TRUE

PagesNext ==
    \/ BvNoPages
    \/ BvPages
    \/ BvImages

\* build_viewer's page discovery on every directory of BookDirs
SpecPages == PagesInit /\ [][PagesNext]_vars

(***************************************************************************)
(* Claims about find_images and find_pages_folder, checked under SpecPages.*)
(***************************************************************************)
Resolved == pc \in {"resolved", "listed"}
Listing == PagesFolder(book_dir, pages_folder).entries
SeqSet(q) == {q[i] : i \in 1..Len(q)}
HasDirectImage == \E i \in 1..Len(book_dir.entries) : IsImage(book_dir.entries[i])
HasDigit(name) == \E i \in 1..Len(name) : CharAt(name, i) \in DigitSet

\* C5: the list find_images returned holds exactly the image files of the
\* folder, and of any two adjacent names the key of the first (integer value
\* of the first digit run, lower-cased name) is not greater than the key of
\* the second.
C5_AscendingByKey ==
    pc = "listed" =>
        /\ SeqSet(images) = {e.name : e \in {x \in SeqSet(Listing) : IsImage(x)}}
        /\ Len(images) = Cardinality(SeqSet(images))
        /\ \A i \in 1..(Len(images) - 1) :
              ~KeyLess(num_key(images[i + 1]), num_key(images[i]))

\* 10.png was enumerated before 2.jpg and the list came out as 2.jpg, 10.png
C5_Witness ==
    /\ pc = "listed"
    /\ Len(Listing) = 2 /\ Listing[1].name = "10.png" /\ Listing[2].name = "2.jpg"
    /\ images = <<"2.jpg", "10.png">>

\* C6 as claimed: in the list find_images returned no name without a digit
\* stands before a name with a digit run, whatever the value of that run.
C6_NoDigitNamesLast ==
    pc = "listed" =>
        \A i, j \in 1..Len(images) :
            (i < j /\ ~HasDigit(images[i])) => ~HasDigit(images[j])

\* every order in which the entries of a listing can be enumerated
Orders(es) ==
    {[i \in 1..Len(es) |-> es[f[i]]] :
        f \in {g \in [1..Len(es) -> 1..Len(es)] :
                  \A a, b \in 1..Len(es) : a # b => g[a] # g[b]}}

\* C7 as claimed: the list find_images returned is the list it returns for
\* every other enumeration order of the same files.
C7_SameUnderEveryOrder ==
    pc = "listed" =>
        \A es \in Orders(Listing) :
            find_images([exists |-> TRUE, entries |-> es]) = images

SubsWithImages ==
    {e \in SeqSet(book_dir.entries) :
        e.is_dir /\ \E i \in 1..Len(e.entries) : IsImage(e.entries[i])}

\* C8: find_pages_folder never returns a subfolder whose lower-cased name is
\* thumbs, thumb, thumbnails or tn; with no direct image and exactly the
\* subfolders Thumbs and pages, both holding images, it returns pages (the
\* listings of SpecPages come in every order).
C8_NeverThumbs ==
    Resolved =>
        /\ pages_folder # "." => Lower(pages_folder) \notin THUMB_NAMES
        /\ (/\ ~HasDirectImage
            /\ {e.name : e \in SubsWithImages} = {"Thumbs", "pages"}
            /\ {e.name : e \in {x \in SeqSet(book_dir.entries) : x.is_dir}}
                   = {"Thumbs", "pages"})
           => pages_folder = "pages"

\* Thumbs was enumerated before pages, both hold images, and pages came back
C8_Witness ==
    /\ pc = "resolved"
    /\ book_dir.entries = <<Dir("Thumbs", <<File("1.png")>>), Dir("pages", <<File("1.png")>>)>>
    /\ pages_folder = "pages"

Eligible == {e.name : e \in {x \in SubsWithImages : Lower(x.name) \notin THUMB_NAMES}}

\* C9 as claimed: with no direct image and two or more subfolders that are
\* not thumbnail folders and hold images, find_pages_folder returns the one
\* first in name order (so the same one under every enumeration order).
C9_FirstInNameOrder ==
    (Resolved /\ ~HasDirectImage /\ Cardinality(Eligible) >= 2) =>
        /\ pages_folder \in Eligible
        /\ \A n \in Eligible : ~StrLess(n, pages_folder)

\* C10: when the book directory directly holds an image file,
\* find_pages_folder returns the book directory itself (never None, never a
\* subfolder), whatever subfolders there are.
C10_BookDirFirst ==
    HasDirectImage => (pc # "failed" /\ (Resolved => pages_folder = "."))

\* the book directory came back although the subfolder pages holds images
C10_Witness ==
    /\ pc = "resolved"
    /\ pages_folder = "."
    /\ "pages" \in Eligible
    /\ HasDirectImage

(***************************************************************************)
(* build.py, find_toc_file and the whole of build_viewer.                  *)
(***************************************************************************)
\* str.endswith(p)
EndsWith(s, p) == Len(s) >= Len(p) /\ SubSeq(s, Len(s) - Len(p) + 1, Len(s)) = p

RECURSIVE Contains(_, _)
\* sub in s
Contains(s, sub) ==
    IF Len(s) < Len(sub) THEN FALSE
    ELSE IF StartsWith(s, sub) THEN TRUE
    ELSE Contains(Tail(s), sub)

\* list(book_dir.glob("*.txt")): the entries named *.txt, in enumeration order
TxtFiles(entries) == SelectSeq(entries, LAMBDA e : EndsWith(e.name, ".txt"))

\* "toc" in f.name.lower()
IsTocNamed(e) == Contains(Lower(e.name), "toc")

\* find_toc_file(book_dir): the name of the file returned, "None" for None
find_toc_file(book) ==
    LET txt_files == TxtFiles(book.entries)
        named == SelectSeq(txt_files, IsTocNamed)
    IN IF txt_files = <<>> THEN "None"
       ELSE IF named # <<>> THEN named[1].name
       ELSE txt_files[1].name

\* a text file of the book directory and what read_text gives for it
TextFile(name, text) ==
    [name |-> name, is_dir |-> FALSE, entries |-> <<>>, text |-> text]

\* the argument parse_toc gets for a result of find_toc_file
TocArgument(book, found) ==
    IF found = "None" THEN NoToc
    ELSE IF EntryNamed(book.entries, found).is_dir THEN UnreadableToc
    ELSE TocText(EntryNamed(book.entries, found).text)

\* toc_data, page_offset = parse_toc(find_toc_file(book_dir)): the call
BvFindToc ==
    /\ pc = "listed"
    /\ toc_path' = find_toc_file(book_dir)
    /\ toc_file' = TocArgument(book_dir, toc_path')
    /\ pc' = "start"
    /\ UNCHANGED <<lines, lineNo, chapters, offset, current_chapter, book_dir,
                   pages_folder, images, page_info, script, template_exists, written,
                   mainVars, otherVars>>

BvNoTemplateAfterWrite ==
    /\ pc = "done"
    /\ ~template_exists
    /\ written' = Append(written, [dir |-> book_dir.name, name |-> "viewer.html"])
    /\ pc' = "failed"
    /\ UNCHANGED <<tocVars, book_dir, pages_folder, images, page_info, script,
                   toc_path, template_exists, mainVars, otherVars>>

\* if not TEMPLATE_FILE.exists(): return False
BvNoTemplate ==
    /\ pc = "done"
    /\ ~template_exists
    /\ pc' = "failed"
    /\ UNCHANGED <<tocVars, fsVars, page_info>>

\* the chapters whose start is the book page of some image
InRangeChapters ==
    SelectSeq(chapters,
              LAMBDA c : c.start.isInt /\ c.start.n + offset \in 1..Len(images))

ViewerHtmlInRange ==
    [dir |-> book_dir.name,
     name |-> "viewer.html",
     img_base |-> IF pages_folder = "." THEN "" ELSE pages_folder,
     pages |-> images,
     toc |-> InRangeChapters,
     page_offset |-> offset]

\* what the placeholders of the template are replaced with, and the file name
ViewerHtml ==
    [dir |-> book_dir.name,
     name |-> "viewer.html",
     img_base |-> IF pages_folder = "." THEN "" ELSE pages_folder,
     pages |-> images,
     toc |-> chapters,
     page_offset |-> offset]

\* (book_dir / "viewer.html").write_text(viewer_html); return True
BvWrite ==
    /\ pc = "done"
    /\ template_exists
    /\ written' = Append(written, ViewerHtml)
    /\ pc' = "built"
    /\ UNCHANGED <<tocVars, book_dir, pages_folder, images, page_info, script,
                   toc_path, template_exists, mainVars, otherVars>>

\* the page files 1.png .. n.png
PageFiles(n) == [i \in 1..n |-> File(Str(i) \o ".png")]

ViewerTocLines ==
    {"OFFSET|2", "CHAPTER|C1|Intro|start=5|end=10", "CHAPTER|C2|Far|start=100",
     "SECTION|S1|Sub|start=3", "", "|"}

\* book directories holding up to MaxPages pages and at most one TOC file
ViewerDirs ==
    {[name |-> "book", exists |-> TRUE, entries |-> PageFiles(n) \o tocs] :
        n \in 0..MaxPages,
        tocs \in {<<>>} \cup
                 {<<TextFile("toc.txt", Join(ls, "\n"))>> :
                     ls \in SeqsUpTo(ViewerTocLines, MaxLines)}}

ViewerInit ==
    /\ toc_file = NoToc
    /\ lines = <<>>
    /\ pc = "entered"
    /\ lineNo = 0
    /\ chapters = <<>>
    /\ offset = 0
    /\ current_chapter = 0
    /\ book_dir \in ViewerDirs
    /\ pages_folder = "None"
    /\ images = <<>>
    /\ page_info = <<>>
    /\ Started(BUILD)
    /\ template_exists \in BOOLEAN

ViewerNext ==
    \/ PagesNext
    \/ BvFindToc
    \/ TocNext
    \/ BvNoTemplate
    \/ BvWrite

\* build_viewer on every directory of ViewerDirs, with and without the
\* template; no TOC line of these directories carries a character of
\* OtherDigits, so TocValueError has no step
SpecViewer == ViewerInit /\ [][ViewerNext]_vars

\* C22: a step of build_viewer that writes writes one file, viewer.html in
\* the directory of the book it was called for, is the step it returns True
\* with, and no file was written before it; a call that returns False has
\* written nothing, and no step changes the book directory otherwise.
C22_WritesOnlyViewerHtml ==
    [][/\ written' # written =>
            /\ written = <<>>
            /\ Len(written') = 1
            /\ written'[1].name = "viewer.html"
            /\ written'[1].dir = book_dir.name
            /\ pc' = "built"
       /\ pc' = "failed" => written' = <<>>
       /\ book_dir' = book_dir]_vars

\* build_viewer has returned True for a book with a TOC and has written
C22_Witness ==
    /\ pc = "built"
    /\ Len(written) = 1
    /\ written[1].name = "viewer.html"
    /\ toc_path = "toc.txt"

(***************************************************************************)
(* The page-index mapper, as the specification of the viewer describes it: *)
(* the viewer.html that build_viewer writes carries the pages, the TOC     *)
(* tree and the offset, and the page maths run in the template.            *)
(***************************************************************************)
\* book_page = i + 1 - offset for the image index i (0-based)
BookPage(html, i) == i + 1 - html.page_offset

\* the reverse lookup: the image index of a book page, or no matching page
ReverseLookup(html, book_page) ==
    LET hits == {i \in 0..(Len(html.pages) - 1) : BookPage(html, i) = book_page}
    IN IF hits = {} THEN [found |-> FALSE, image_index |-> 0]
       ELSE [found |-> TRUE, image_index |-> CHOOSE i \in hits : TRUE]

\* the mapper reports the page value v of an entry as unresolved
Unresolved(html, v) == ~v.isInt \/ ~ReverseLookup(html, v.n).found

\* the page value v a line writes is no book page of the pages found
OutOfRange(v) == v.isInt /\ (v.n < 1 - offset \/ v.n > Len(images) - offset)

TocFileNames == {"toc.txt", "My-TOC.txt", "notes.txt", "a.txt", "readme.md"}

\* up to one page and up to MaxFiles other files, in every order
TocDirs ==
    {[name |-> "book", exists |-> TRUE, entries |-> PageFiles(n) \o fs] :
        n \in 0..1,
        fs \in {f \in SeqsUpTo({TextFile(m, "") : m \in TocFileNames}, MaxFiles) :
                   DistinctNames(f)}}

FindTocInit ==
    /\ toc_file = NoToc
    /\ lines = <<>>
    /\ pc = "entered"
    /\ lineNo = 0
    /\ chapters = <<>>
    /\ offset = 0
    /\ current_chapter = 0
    /\ book_dir \in TocDirs
    /\ pages_folder = "None"
    /\ images = <<>>
    /\ page_info = <<>>
    /\ Started(BUILD)
    /\ template_exists = TRUE

FindTocNext ==
    \/ PagesNext
    \/ BvFindToc

\* build_viewer on every directory of TocDirs, up to the call of parse_toc
SpecFindToc == FindTocInit /\ [][FindTocNext]_vars

\* the names of the .txt entries of the book directory
TxtNames == {e.name : e \in {x \in SeqSet(book_dir.entries) : EndsWith(x.name, ".txt")}}
TocNamed == {m \in TxtNames : Contains(Lower(m), "toc")}

\* C20: find_toc_file returns a .txt file whose name contains "toc" in any
\* case when there is one, otherwise the first .txt file in name order,
\* otherwise nothing, and returns the same file for every order in which
\* the directory enumerates its entries.
C20_TocChoiceByName ==
    (pc = "start" /\ book_dir.exists) =>
        /\ TocNamed # {} => toc_path \in TocNamed
        /\ (TocNamed = {} /\ TxtNames # {}) =>
              (toc_path \in TxtNames /\ \A m \in TxtNames : ~StrLess(m, toc_path))
        /\ TxtNames = {} => toc_path = "None"
        /\ \A es \in Orders(book_dir.entries) :
              find_toc_file([book_dir EXCEPT !.entries = es]) = toc_path

(***************************************************************************)
(* build.py, discover_books and main: build_viewer on every book of        *)
(* BOOKS_ROOT, one after the other.                                        *)
(***************************************************************************)
MaxBooks == 2

\* d.is_dir() and not d.name.startswith(".") and find_pages_folder(d)
IsBook(d) ==
    d.is_dir /\ ~StartsWith(d.name, ".") /\ find_pages_folder(AsFolder(d)) # "None"

\* discover_books(): the book directories of BOOKS_ROOT, sorted by name.lower()
discover_books(listing) ==
    IF ~listing.exists THEN <<>>
    ELSE LET found == SelectSeq(listing.entries, IsBook)
             sorted == SortByKey([i \in 1..Len(found) |->
                                     <<name_key(found[i].name), found[i]>>])
         IN [i \in 1..Len(found) |-> sorted[i][2]]

\* books = discover_books(); if not books: return 1
MainNoBooks ==
    /\ pc = "main"
    /\ discover_books(books_root) = <<>>
    /\ pc' = "nobooks"
    /\ UNCHANGED <<tocVars, fsVars, page_info>>

\* books = discover_books(); success = 0; for book in books:
MainDiscover ==
    /\ pc = "main"
    /\ discover_books(books_root) # <<>>
    /\ books' = discover_books(books_root)
    /\ bookNo' = 1
    /\ success' = 0
    /\ pc' = "next"
    /\ UNCHANGED <<tocVars, book_dir, pages_folder, images, page_info, script,
                   toc_path, template_exists, written, books_root, otherVars>>

\* build_viewer(book): the call, with the locals of build_viewer and of
\* parse_toc fresh
MainCall ==
    /\ pc = "next"
    /\ bookNo <= Len(books)
    /\ book_dir' = AsFolder(books[bookNo])
    /\ pages_folder' = "None"
    /\ images' = <<>>
    /\ toc_path' = "None"
    /\ toc_file' = NoToc
    /\ lines' = <<>>
    /\ lineNo' = 0
    /\ chapters' = <<>>
    /\ offset' = 0
    /\ current_chapter' = 0
    /\ pc' = "entered"
    /\ UNCHANGED <<page_info, script, template_exists, written, mainVars, otherVars>>

\* if build_viewer(book): success += 1
MainBuilt ==
    /\ pc = "built"
    /\ success' = success + 1
    /\ bookNo' = bookNo + 1
    /\ pc' = "next"
    /\ UNCHANGED <<tocVars, book_dir, pages_folder, images, page_info, script,
                   toc_path, template_exists, written, books_root, books,
                   otherVars>>

\* build_viewer(book) returned False: the loop goes on to the next book
MainFailed ==
    /\ pc = "failed"
    /\ bookNo' = bookNo + 1
    /\ pc' = "next"
    /\ UNCHANGED <<tocVars, book_dir, pages_folder, images, page_info, script,
                   toc_path, template_exists, written, books_root, books,
                   success, otherVars>>

\* an exception out of build_viewer: main has no try, the exception leaves
\* the loop and main, and raise SystemExit(main()) is never reached
MainRaised ==
    /\ pc = "raised"
    /\ pc' = "aborted"
    /\ UNCHANGED <<tocVars, fsVars, page_info>>

\* the loop is over: print(f"Built {success}/{len(books)} viewers"); return 0
MainReport ==
    /\ pc = "next"
    /\ bookNo > Len(books)
    /\ pc' = "reported"
    /\ UNCHANGED <<tocVars, fsVars, page_info>>

BookNames == {"a", "B", "c"}

\* a TOC file with a line of every kind parse_toc tells apart
FullToc ==
    Join(<<"# notes", "|", "OFFSET|2", "CHAPTER|C1|Intro|start=1", "SECTION|S1|Sub",
           "NOTE|x">>, "\n")

\* what a book directory holds: one page with a TOC file, one page and no
\* TOC file, one page with a directory named toc.txt, one page with a TOC
\* whose start is U+00B2, nothing at all
BookListings ==
    {<<File("1.png"), TextFile("toc.txt", FullToc)>>,
     <<File("1.png")>>,
     <<File("1.png"), Dir("toc.txt", <<>>)>>,
     <<File("1.png"), TextFile("toc.txt", "CHAPTER|C5|Sq|start=" \o SuperTwo)>>,
     <<>>}

RootEntries ==
    {Dir(n, l) : n \in BookNames, l \in BookListings}
    \cup {Dir(".hidden", <<File("1.png")>>), File("notes.txt")}

\* no BOOKS_ROOT, or one holding up to MaxBooks entries in every order
BooksRoots ==
    {NoBook} \cup
    {[name |-> "books", exists |-> TRUE, entries |-> es] :
        es \in {e \in SeqsUpTo(RootEntries, MaxBooks) : DistinctNames(e)}}

MainInit ==
    /\ toc_file = NoToc
    /\ lines = <<>>
    /\ pc = "main"
    /\ lineNo = 0
    /\ chapters = <<>>
    /\ offset = 0
    /\ current_chapter = 0
    /\ book_dir = NoBook
    /\ pages_folder = "None"
    /\ images = <<>>
    /\ page_info = <<>>
    /\ script = BUILD
    /\ toc_path = "None"
    /\ written = <<>>
    /\ template_exists \in BOOLEAN
    /\ books_root \in BooksRoots
    /\ books = <<>>
    /\ bookNo = 0
    /\ success = 0
    /\ NoOther

\* discover_books keeps the directories find_pages_folder accepts, and
\* find_pages_folder accepts a folder find_images finds images in, so
\* BvNoPages has no step here and BvImages never fails
MainNext ==
    \/ MainNoBooks
    \/ MainDiscover
    \/ MainCall
    \/ BvPages
    \/ BvImages
    \/ BvFindToc
    \/ TocNext
    \/ TocOSError
    \/ TocValueError
    \/ BvNoTemplate
    \/ BvWrite
    \/ MainBuilt
    \/ MainFailed
    \/ MainRaised
    \/ MainReport

\* main of build.py on every BOOKS_ROOT of BooksRoots, with and without the
\* template
SpecMain == MainInit /\ [][MainNext]_vars

(***************************************************************************)
(* Claims about main of build.py, checked under SpecMain.                  *)
(***************************************************************************)
MainEnded == pc \in {"nobooks", "reported", "aborted"}

\* build_viewer has been called on every book of the list
AllCalled == \A i \in 1..Len(books) : i <= bookNo

\* the books whose viewer was written
BuiltBooks == {written[i].dir : i \in 1..Len(written)}

\* C21: when main has ended, build_viewer has been called on every
\* discovered book, whatever happened to the books before it (no pages
\* folder, no images, no template, a TOC file that cannot be read), and the
\* count main reports is the number of books whose viewer was built.
C21_FailureNeverAbortsBatch ==
    MainEnded =>
        /\ pc # "aborted"
        /\ AllCalled
        /\ success = Cardinality(BuiltBooks)

\* the same for the runs in which build_viewer returns False or True
C21_ReturnedFalseContinues ==
    pc \in {"nobooks", "reported"} =>
        /\ AllCalled
        /\ success = Cardinality(BuiltBooks)
        /\ success = Len(written)
        /\ BuiltBooks \subseteq {books[i].name : i \in 1..Len(books)}

(***************************************************************************)
(* index-builder.py, collect_root_apps and what it calls.  The regular     *)
(* expressions of extract_meta_comment and extract_title are matched as    *)
(* re.search matches them: leftmost start, lazy group.                     *)
(***************************************************************************)
MaxRoot == 2

IGNORE_ROOT_HTML == {"index.html", "viewer-template.html"}
IGNORE_PREFIXES == {"_", "."}

\* Optional[str]
NoneStr == [some |-> FALSE, val |-> ""]
Some(v) == [some |-> TRUE, val |-> v]
\* x or default
OrElse(x, default) == IF x.some THEN x.val ELSE default
\* s or None
OrNone(s) == IF s = "" THEN NoneStr ELSE Some(s)

RECURSIVE SkipSpace(_, _)
\* \s* from position i on: the position of the first character that is not
\* white space
SkipSpace(s, i) ==
    IF i <= Len(s) /\ IsSpace(CharAt(s, i)) THEN SkipSpace(s, i + 1) ELSE i

\* the literal p stands at position i of s
StartsAt(s, i, p) == i + Len(p) - 1 <= Len(s) /\ SubSeq(s, i, i + Len(p) - 1) = p

\* the same under re.IGNORECASE
StartsAtNoCase(s, i, p) ==
    i + Len(p) - 1 <= Len(s) /\ Lower(SubSeq(s, i, i + Len(p) - 1)) = Lower(p)

RECURSIVE CommentGroupEnd(_, _)
\* (.*?)\s*--> from position e on: the first position at which \s*--> matches,
\* reached over characters other than the newline; 0 when there is none
CommentGroupEnd(s, e) ==
    IF StartsAt(s, SkipSpace(s, e), "-->") THEN e
    ELSE IF e > Len(s) THEN 0
    ELSE IF CharAt(s, e) = "\n" THEN 0
    ELSE CommentGroupEnd(s, e + 1)

\* <!--\s*KEY\s*:\s*(.*?)\s*--> tried at position i
MetaMatchAt(s, i, key) ==
    LET j == SkipSpace(s, i + 4)
        c == SkipSpace(s, j + Len(key))
        k == SkipSpace(s, c + 1)
        e == CommentGroupEnd(s, k)
    IN IF StartsAt(s, i, "<!--") /\ StartsAtNoCase(s, j, key) /\ StartsAt(s, c, ":") /\ e # 0
       THEN Some(SubSeq(s, k, e - 1))
       ELSE NoneStr

RECURSIVE MetaSearch(_, _, _)
MetaSearch(s, i, key) ==
    IF i > Len(s) THEN NoneStr
    ELSE IF MetaMatchAt(s, i, key).some THEN MetaMatchAt(s, i, key)
    ELSE MetaSearch(s, i + 1, key)

\* (m.group(1).strip() if m else None) or None
extract_meta_comment(html_text, key) ==
    LET m == MetaSearch(html_text, 1, key)
    IN IF m.some THEN OrNone(Strip(m.val)) ELSE NoneStr

RECURSIVE FindNoCase(_, _, _)
\* the first position at or after i where p stands, letter case ignored; 0
\* when there is none
FindNoCase(s, i, p) ==
    IF i + Len(p) - 1 > Len(s) THEN 0
    ELSE IF StartsAtNoCase(s, i, p) THEN i
    ELSE FindNoCase(s, i + 1, p)

RECURSIVE CollapseSpace(_)
\* re.sub(r"\s+", " ", s)
CollapseSpace(s) ==
    IF Len(s) = 0 THEN ""
    ELSE IF IsSpace(CharAt(s, 1))
         THEN " " \o CollapseSpace(SubSeq(s, SkipSpace(s, 1), Len(s)))
         ELSE CharAt(s, 1) \o CollapseSpace(Tail(s))

\* <title>(.*?)</title> with IGNORECASE and DOTALL, white space collapsed
extract_title(html_text) ==
    LET i == FindNoCase(html_text, 1, "<title>")
        e == IF i = 0 THEN 0 ELSE FindNoCase(html_text, i + 7, "</title>")
    IN IF e = 0 THEN NoneStr
       ELSE OrNone(Strip(CollapseSpace(SubSeq(html_text, i + 7, e - 1))))

RECURSIVE ReplaceChar(_, _, _)
\* str.replace(old, new) for one-character strings
ReplaceChar(s, old, new) ==
    IF Len(s) = 0 THEN ""
    ELSE (IF CharAt(s, 1) = old THEN new ELSE CharAt(s, 1)) \o ReplaceChar(Tail(s), old, new)

IsCased(c) == c \in DOMAIN ToLower \/ c \in DOMAIN ToUpper

RECURSIVE TitleFrom(_, _)
\* str.title(): a cased character is upper case when the one before it is
\* not cased, lower case otherwise
TitleFrom(s, prev_cased) ==
    IF Len(s) = 0 THEN ""
    ELSE LET c == CharAt(s, 1)
         IN (IF prev_cased THEN Lower(c) ELSE Upper(c)) \o TitleFrom(Tail(s), IsCased(c))

Title(s) == TitleFrom(s, FALSE)

\* PurePath.stem
Stem(name) == SubSeq(name, 1, Len(name) - Len(Suffix(name)))

\* stem.title() if stem else p.name
label_from_filename(name) ==
    LET stem == Strip(ReplaceChar(ReplaceChar(Stem(name), "-", " "), "_", " "))
    IN IF stem # "" THEN Title(stem) ELSE name

\* AppLink(href=f.name, title=title, topic=topic, desc=desc)
AppLink(f) ==
    [href |-> f.name,
     title |-> OrElse(extract_title(f.text), label_from_filename(f.name)),
     topic |-> OrElse(extract_meta_comment(f.text, "TOPIC"), "Unsorted"),
     desc |-> OrElse(extract_meta_comment(f.text, "DESC"), "")]

\* the four tests of the loop: f is a file, named *.html, not ignored by
\* name, not ignored by prefix
IsRootApp(f) ==
    /\ ~f.is_dir
    /\ Lower(Suffix(f.name)) = ".html"
    /\ Lower(f.name) \notin IGNORE_ROOT_HTML
    /\ \A p \in IGNORE_PREFIXES : ~StartsWith(f.name, p)

\* sorted(ROOT.iterdir(), key=lambda p: p.name.lower())
SortedByLowerName(entries) ==
    LET sorted == SortByKey([i \in 1..Len(entries) |->
                                <<name_key(entries[i].name), entries[i]>>])
    IN [i \in 1..Len(entries) |-> sorted[i][2]]

\* the position of topic t among the keys of the dict d, 0 when absent
RECURSIVE KeyIndex(_, _, _)
KeyIndex(d, t, i) ==
    IF i > Len(d) THEN 0
    ELSE IF d[i].topic = t THEN i
    ELSE KeyIndex(d, t, i + 1)

\* groups.setdefault(topic, []).append(a): a dict keeps its keys in the
\* order they were first set
GroupsAdd(d, a) ==
    LET i == KeyIndex(d, a.topic, 1)
    IN IF i = 0 THEN Append(d, [topic |-> a.topic, apps |-> <<a>>])
       ELSE [d EXCEPT ![i].apps = Append(@, a)]

\* groups[t].sort(key=lambda a: a.title.lower())
SortedByTitle(apps) ==
    LET sorted == SortByKey([i \in 1..Len(apps) |->
                                <<name_key(apps[i].title), apps[i]>>])
    IN [i \in 1..Len(apps) |-> sorted[i][2]]

SortGroups(d) == [i \in 1..Len(d) |-> [d[i] EXCEPT !.apps = SortedByTitle(@)]]

\* sorted([k for k in groups.keys() if k.lower() != "unsorted"], key=str.lower)
SortedTopics(d) ==
    LET named == SelectSeq(d, LAMBDA g : Lower(g.topic) # "unsorted")
        sorted == SortByKey([i \in 1..Len(named) |->
                                <<name_key(named[i].topic), named[i]>>])
    IN [i \in 1..Len(named) |-> sorted[i][2]]

\* ordered: the sorted topics, then groups["Unsorted"] if "Unsorted" in groups
Ordered(d) ==
    SortedTopics(d) \o SelectSeq(d, LAMBDA g : g.topic = "Unsorted")


(***************************************************************************)
(* collect_root_apps as a machine: one step per entry of ROOT.             *)
(***************************************************************************)
INDEX == "index-builder.py"

\* what the scripts other than index-builder.py keep
buildVars == <<tocVars, book_dir, pages_folder, images, page_info, script, toc_path,
               template_exists, written, mainVars>>

RootFiles == SortedByLowerName(root)

\* groups = {}; for f in sorted(ROOT.iterdir(), ...):
CraStart ==
    /\ pc = "collect"
    /\ fileNo' = 1
    /\ groups' = <<>>
    /\ pc' = "scan"
    /\ UNCHANGED <<buildVars, pushVars, root, ordered>>

\* one of the four continue of the loop
CraSkip ==
    /\ pc = "scan"
    /\ fileNo <= Len(root)
    /\ ~IsRootApp(RootFiles[fileNo])
    /\ fileNo' = fileNo + 1
    /\ UNCHANGED <<buildVars, pushVars, pc, root, groups, ordered>>

\* groups.setdefault(topic, []).append(AppLink(...))
CraAdd ==
    /\ pc = "scan"
    /\ fileNo <= Len(root)
    /\ IsRootApp(RootFiles[fileNo])
    /\ groups' = GroupsAdd(groups, AppLink(RootFiles[fileNo]))
    /\ fileNo' = fileNo + 1
    /\ UNCHANGED <<buildVars, pushVars, pc, root, ordered>>

\* the loop is over: every group is sorted by title, the topics are put in
\* order, return ordered
CraReturn ==
    /\ pc = "scan"
    /\ fileNo > Len(root)
    /\ groups' = SortGroups(groups)
    /\ ordered' = Ordered(groups')
    /\ pc' = "returned"
    /\ UNCHANGED <<buildVars, pushVars, root, fileNo>>

AppNames == {"a.html", "B.HTML", "c-d_e.html"}

\* pages with a TOPIC in several letter cases, with the topic Unsorted in
\* three letter cases, and with no TOPIC
AppTexts ==
    {"<title>Beta</title><!-- TOPIC: Mechanics -->",
     "<!--topic:mechanics--><!-- DESC: a  b -->",
     "<!-- TOPIC: unsorted --><TITLE> Alpha\n one</TITLE>",
     "<!-- TOPIC: UNSORTED -->",
     "<!-- TOPIC: Unsorted -->",
     "<p>none</p><!-- TOPIC: -->"}

\* entries of ROOT the loop passes over
NotApps ==
    {TextFile("index.html", ""), TextFile("Viewer-Template.html", ""),
     TextFile("_x.html", ""), TextFile(".y.html", ""), TextFile("notes.txt", ""),
     Dir("d.html", <<>>)}

\* ROOT holding up to MaxRoot entries, in every enumeration order
Roots ==
    {es \in SeqsUpTo({TextFile(n, t) : n \in AppNames, t \in AppTexts} \cup NotApps,
                     MaxRoot) : DistinctNames(es)}

IndexInit ==
    /\ toc_file = NoToc
    /\ lines = <<>>
    /\ pc = "collect"
    /\ lineNo = 0
    /\ chapters = <<>>
    /\ offset = 0
    /\ current_chapter = 0
    /\ book_dir = NoBook
    /\ pages_folder = "None"
    /\ images = <<>>
    /\ page_info = <<>>
    /\ script = INDEX
    /\ toc_path = "None"
    /\ written = <<>>
    /\ template_exists = TRUE
    /\ NoMain
    /\ root \in Roots
    /\ fileNo = 0
    /\ groups = <<>>
    /\ ordered = <<>>
    /\ NoPush

IndexNext ==
    \/ CraStart
    \/ CraSkip
    \/ CraAdd
    \/ CraReturn

\* collect_root_apps on every ROOT of Roots
SpecIndex == IndexInit /\ [][IndexNext]_vars

(***************************************************************************)
(* Claims about collect_root_apps, checked under SpecIndex.                *)
(***************************************************************************)
\* the names of the eligible files of ROOT
EligibleApps == {f.name : f \in {x \in SeqSet(root) : IsRootApp(x)}}

\* how many groups of the returned mapping list the file named n
TimesListed(n) ==
    Cardinality({<<i, j>> \in (1..Len(ordered)) \X (1..MaxRoot + 1) :
                    j <= Len(ordered[i].apps) /\ ordered[i].apps[j].href = n})

\* C23: in the mapping collect_root_apps returns, every eligible root-level
\* .html file stands in exactly one topic group, whatever the letter case of
\* its TOPIC (unsorted and UNSORTED included), and the group Unsorted, when
\* there is one, is the last group.
C23_NoAppLost ==
    pc = "returned" =>
        /\ \A n \in EligibleApps : TimesListed(n) = 1
        /\ \A i \in 1..Len(ordered) : ordered[i].topic = "Unsorted" => i = Len(ordered)

\* the same for the files whose TOPIC is not unsorted in another letter case
C23_OtherTopicsKept ==
    pc = "returned" =>
        /\ \A f \in SeqSet(root) :
              (IsRootApp(f) /\ (AppLink(f).topic = "Unsorted"
                                \/ Lower(AppLink(f).topic) # "unsorted"))
                  => TimesListed(f.name) = 1
        /\ \A n \in EligibleApps : TimesListed(n) <= 1
        /\ \A i \in 1..Len(ordered) : ordered[i].topic = "Unsorted" => i = Len(ordered)

(***************************************************************************)
(* push.py.  The repository is what the git commands read and change: the  *)
(* URL of origin ("" for no origin), the current branch ("" for a detached *)
(* HEAD), the local branches, the remote-tracking branches of origin, the  *)
(* branch refs/remotes/origin/HEAD points to ("" for none) and whether the *)
(* working tree differs from HEAD.  A command that can succeed can also    *)
(* fail (network, locks, hooks); a failed command changes nothing.         *)
(***************************************************************************)
PUSH == "push.py"
TARGET_ORIGIN_HTTPS == "https://github.com/ronandownes/applied-maths.git"
OtherOrigin == "https://github.com/someone/fork.git"

\* one subprocess call: the step of main it belongs to, its command line,
\* whether a non-zero exit raises CalledProcessError, whether the call stands
\* in a try that catches it, how it ended and what it printed
Call(step, argv, checked, caught, ok, out) ==
    [step |-> step, argv |-> argv, checked |-> checked, caught |-> caught,
     ok |-> ok, out |-> out]

\* run(cmd, check) and capture(cmd), outside a try and inside one
Run(step, argv, checked, ok) ==
    cmds' = Append(cmds, Call(step, argv, checked, FALSE, ok, ""))
RunInTry(step, argv, checked, ok) ==
    cmds' = Append(cmds, Call(step, argv, checked, TRUE, ok, ""))
Capture(step, argv, ok, out) ==
    cmds' = Append(cmds, Call(step, argv, TRUE, FALSE, ok, IF ok THEN out ELSE ""))
CaptureInTry(step, argv, ok, out) ==
    cmds' = Append(cmds, Call(step, argv, TRUE, TRUE, ok, IF ok THEN out ELSE ""))

\* how a command can end when git could carry it out, and when it could not
Outcomes(possible) == IF possible THEN BOOLEAN ELSE {FALSE}

\* str.rsplit("/", 1)[-1]
RSplitLast(s) == SubSeq(s, LastIndexFrom(s, "/", Len(s)) + 1, Len(s))

\* what git branch -r prints, stripped by capture
BranchR ==
    Strip(Join((IF git.remote_head = "" THEN <<>>
                ELSE <<"  origin/HEAD -> origin/" \o git.remote_head>>)
               \o [i \in 1..Len(git.remotes) |-> "  origin/" \o git.remotes[i]],
               "\n"))

\* what git branch --list <branch> prints, stripped by capture
BranchList(branch) ==
    IF branch \notin git.locals THEN ""
    ELSE IF branch = git.current THEN "* " \o branch
    ELSE branch

\* what git status --porcelain prints once everything is staged
StatusPorcelain == IF git.dirty THEN "M  index.html" ELSE ""

\* repo_root = find_repo_root(...) raises RuntimeError
PmNoRepo ==
    /\ pc = "push_main"
    /\ ~git.repo
    /\ pc' = "raised"
    /\ UNCHANGED <<buildVars, indexVars, pushVars>>

\* repo_root = find_repo_root(...); os.chdir(repo_root)
PmChdir ==
    /\ pc = "push_main"
    /\ git.repo
    /\ pc' = "get_url"
    /\ UNCHANGED <<buildVars, indexVars, pushVars>>

\* ensure_origin: current = capture(["git", "remote", "get-url", "origin"])
EoGetUrl ==
    /\ pc = "get_url"
    /\ \E ok \in Outcomes(git.origin # "") :
          /\ CaptureInTry("origin", <<"git", "remote", "get-url", "origin">>, ok,
                          git.origin)
          /\ pc' = IF ~ok THEN "add_origin"
                   ELSE IF git.origin # TARGET_ORIGIN_HTTPS THEN "set_url"
                   ELSE "fetch"
    /\ UNCHANGED <<buildVars, indexVars, git, default_branch>>

EoSetUrlUnchecked ==
    /\ pc = "set_url"
    /\ \E ok \in Outcomes(git.origin # "") :
          /\ RunInTry("origin",
                      <<"git", "remote", "set-url", "origin", TARGET_ORIGIN_HTTPS>>,
                      FALSE, ok)
          /\ git' = IF ok THEN [git EXCEPT !.origin = TARGET_ORIGIN_HTTPS] ELSE git
          /\ pc' = "fetch"
    /\ UNCHANGED <<buildVars, indexVars, default_branch>>

\* ensure_origin: run(["git", "remote", "set-url", "origin", target_url]),
\* inside the try: its CalledProcessError is caught by the except
EoSetUrl ==
    /\ pc = "set_url"
    /\ \E ok \in Outcomes(git.origin # "") :
          /\ RunInTry("origin",
                      <<"git", "remote", "set-url", "origin", TARGET_ORIGIN_HTTPS>>,
                      TRUE, ok)
          /\ git' = IF ok THEN [git EXCEPT !.origin = TARGET_ORIGIN_HTTPS] ELSE git
          /\ pc' = IF ok THEN "fetch" ELSE "add_origin"
    /\ UNCHANGED <<buildVars, indexVars, default_branch>>

\* ensure_origin, except: run(["git", "remote", "add", "origin", target_url])
EoAddOrigin ==
    /\ pc = "add_origin"
    /\ \E ok \in Outcomes(git.origin = "") :
          /\ Run("origin", <<"git", "remote", "add", "origin", TARGET_ORIGIN_HTTPS>>,
                 TRUE, ok)
          /\ git' = IF ok THEN [git EXCEPT !.origin = TARGET_ORIGIN_HTTPS] ELSE git
          /\ pc' = IF ok THEN "fetch" ELSE "raised"
    /\ UNCHANGED <<buildVars, indexVars, default_branch>>

\* the remote-tracking branches a fetch can leave behind
RemoteLists == {<<>>, <<"main">>, <<"master">>, <<"maintenance">>, <<"dev", "rel/v1">>}

\* detect_remote_default_branch: run(["git", "fetch", "origin", "--prune"],
\* check=False)
DrFetch ==
    /\ pc = "fetch"
    /\ \E ok \in BOOLEAN :
          /\ Run("detect", <<"git", "fetch", "origin", "--prune">>, FALSE, ok)
          /\ \E rs \in IF ok THEN RemoteLists ELSE {git.remotes} :
                git' = [git EXCEPT !.remotes = rs]
    /\ pc' = "symbolic_ref"
    /\ UNCHANGED <<buildVars, indexVars, default_branch>>

\* ref = capture(["git", "symbolic-ref", "refs/remotes/origin/HEAD"]);
\* return ref.rsplit("/", 1)[-1]
DrSymbolicRef ==
    /\ pc = "symbolic_ref"
    /\ \E ok \in Outcomes(git.remote_head # "") :
          /\ CaptureInTry("detect",
                          <<"git", "symbolic-ref", "refs/remotes/origin/HEAD">>, ok,
                          "refs/remotes/origin/" \o git.remote_head)
          /\ default_branch' =
                IF ok THEN RSplitLast("refs/remotes/origin/" \o git.remote_head)
                ELSE default_branch
          /\ pc' = IF ok THEN "el_current" ELSE "branch_r"
    /\ UNCHANGED <<buildVars, indexVars, git>>

\* except: branches = capture(["git", "branch", "-r"]); main, then master
DrBranchR ==
    /\ pc = "branch_r"
    /\ \E ok \in BOOLEAN :
          /\ Capture("detect", <<"git", "branch", "-r">>, ok, BranchR)
          /\ default_branch' =
                IF ok /\ Contains(BranchR, "origin/main") THEN "main"
                ELSE IF ok /\ Contains(BranchR, "origin/master") THEN "master"
                ELSE default_branch
          /\ pc' = IF ~ok THEN "raised"
                   ELSE IF Contains(BranchR, "origin/main") \/ Contains(BranchR, "origin/master")
                        THEN "el_current"
                   ELSE "last_resort"
    /\ UNCHANGED <<buildVars, indexVars, git>>

\* current = capture(["git", "branch", "--show-current"]); return current or "main"
DrShowCurrent ==
    /\ pc = "last_resort"
    /\ \E ok \in BOOLEAN :
          /\ Capture("detect", <<"git", "branch", "--show-current">>, ok, git.current)
          /\ default_branch' =
                IF ~ok THEN default_branch
                ELSE IF git.current # "" THEN git.current
                ELSE "main"
          /\ pc' = IF ok THEN "el_current" ELSE "raised"
    /\ UNCHANGED <<buildVars, indexVars, git>>

\* ensure_local_branch: current = capture(["git", "branch", "--show-current"]);
\* if current == branch: return
ElShowCurrent ==
    /\ pc = "el_current"
    /\ \E ok \in BOOLEAN :
          /\ Capture("switch", <<"git", "branch", "--show-current">>, ok, git.current)
          /\ pc' = IF ~ok THEN "raised"
                   ELSE IF git.current = default_branch THEN "add"
                   ELSE "el_list"
    /\ UNCHANGED <<buildVars, indexVars, git, default_branch>>

\* locals_ = capture(["git", "branch", "--list", branch])
ElList ==
    /\ pc = "el_list"
    /\ \E ok \in BOOLEAN :
          /\ Capture("switch", <<"git", "branch", "--list", default_branch>>, ok,
                     BranchList(default_branch))
          /\ pc' = IF ~ok THEN "raised"
                   ELSE IF Strip(BranchList(default_branch)) # "" THEN "el_checkout"
                   ELSE "el_remotes"
    /\ UNCHANGED <<buildVars, indexVars, git, default_branch>>

\* run(["git", "checkout", branch]); return
ElCheckout ==
    /\ pc = "el_checkout"
    /\ \E ok \in Outcomes(default_branch \in git.locals) :
          /\ Run("switch", <<"git", "checkout", default_branch>>, TRUE, ok)
          /\ git' = IF ok THEN [git EXCEPT !.current = default_branch] ELSE git
          /\ pc' = IF ok THEN "add" ELSE "raised"
    /\ UNCHANGED <<buildVars, indexVars, default_branch>>

\* remotes = capture(["git", "branch", "-r"]); if f"origin/{branch}" in remotes:
ElBranchR ==
    /\ pc = "el_remotes"
    /\ \E ok \in BOOLEAN :
          /\ Capture("switch", <<"git", "branch", "-r">>, ok, BranchR)
          /\ pc' = IF ~ok THEN "raised"
                   ELSE IF Contains(BranchR, "origin/" \o default_branch) THEN "el_track"
                   ELSE "el_new"
    /\ UNCHANGED <<buildVars, indexVars, git, default_branch>>

\* the branch is one of the remote-tracking branches of origin
IsRemote(branch) == \E i \in 1..Len(git.remotes) : git.remotes[i] = branch

\* run(["git", "checkout", "-b", branch, f"origin/{branch}"])
ElCheckoutTrack ==
    /\ pc = "el_track"
    /\ \E ok \in Outcomes(default_branch \notin git.locals /\ IsRemote(default_branch)) :
          /\ Run("switch", <<"git", "checkout", "-b", default_branch,
                             "origin/" \o default_branch>>, TRUE, ok)
          /\ git' = IF ok THEN [git EXCEPT !.current = default_branch,
                                           !.locals = @ \cup {default_branch}]
                    ELSE git
          /\ pc' = IF ok THEN "add" ELSE "raised"
    /\ UNCHANGED <<buildVars, indexVars, default_branch>>

\* run(["git", "checkout", "-b", branch])
ElCheckoutNew ==
    /\ pc = "el_new"
    /\ \E ok \in Outcomes(default_branch \notin git.locals) :
          /\ Run("switch", <<"git", "checkout", "-b", default_branch>>, TRUE, ok)
          /\ git' = IF ok THEN [git EXCEPT !.current = default_branch,
                                           !.locals = @ \cup {default_branch}]
                    ELSE git
          /\ pc' = IF ok THEN "add" ELSE "raised"
    /\ UNCHANGED <<buildVars, indexVars, default_branch>>

\* commit_if_needed: run(["git", "add", "."])
CnAdd ==
    /\ pc = "add"
    /\ \E ok \in BOOLEAN :
          /\ Run("stage", <<"git", "add", ".">>, TRUE, ok)
          /\ pc' = IF ok THEN "status" ELSE "raised"
    /\ UNCHANGED <<buildVars, indexVars, git, default_branch>>

\* status = capture(["git", "status", "--porcelain"]);
\* if not status.strip(): return
CnStatus ==
    /\ pc = "status"
    /\ \E ok \in BOOLEAN :
          /\ Capture("stage", <<"git", "status", "--porcelain">>, ok, StatusPorcelain)
          /\ pc' = IF ~ok THEN "raised"
                   ELSE IF Strip(StatusPorcelain) = "" THEN "push"
                   ELSE "commit"
    /\ UNCHANGED <<buildVars, indexVars, git, default_branch>>

\* run(["git", "commit", "-m", message], check=True)
CnCommit ==
    /\ pc = "commit"
    /\ \E ok \in Outcomes(git.dirty) :
          /\ Run("commit", <<"git", "commit", "-m", "sync applied-maths">>, TRUE, ok)
          /\ git' = IF ok THEN [git EXCEPT !.dirty = FALSE] ELSE git
          /\ pc' = IF ok THEN "push" ELSE "raised"
    /\ UNCHANGED <<buildVars, indexVars, default_branch>>

\* push(default_branch): run(["git", "push", "-u", "origin", branch]);
\* print("Done"); return 0
PushRun ==
    /\ pc = "push"
    /\ \E ok \in BOOLEAN :
          /\ Run("push", <<"git", "push", "-u", "origin", default_branch>>, TRUE, ok)
          /\ pc' = IF ok THEN "returned" ELSE "raised"
    /\ UNCHANGED <<buildVars, indexVars, git, default_branch>>

\* the repositories push.py is run in
Repos ==
    {NoGit} \cup
    {[repo |-> TRUE, origin |-> o, current |-> c, locals |-> ls, remotes |-> rs,
      remote_head |-> h, dirty |-> d] :
        o \in {"", OtherOrigin, TARGET_ORIGIN_HTTPS},
        c \in {"", "main", "dev"},
        ls \in SUBSET {"main", "dev"},
        rs \in RemoteLists,
        h \in {"", "main", "rel/v1"},
        d \in BOOLEAN}

PushInit ==
    /\ toc_file = NoToc
    /\ lines = <<>>
    /\ pc = "push_main"
    /\ lineNo = 0
    /\ chapters = <<>>
    /\ offset = 0
    /\ current_chapter = 0
    /\ book_dir = NoBook
    /\ pages_folder = "None"
    /\ images = <<>>
    /\ page_info = <<>>
    /\ script = PUSH
    /\ toc_path = "None"
    /\ written = <<>>
    /\ template_exists = TRUE
    /\ NoMain
    /\ NoIndex
    /\ git \in Repos
    /\ cmds = <<>>
    /\ default_branch = ""

PushNext ==
    \/ PmNoRepo
    \/ PmChdir
    \/ EoGetUrl
    \/ EoSetUrl
    \/ EoAddOrigin
    \/ DrFetch
    \/ DrSymbolicRef
    \/ DrBranchR
    \/ DrShowCurrent
    \/ ElShowCurrent
    \/ ElList
    \/ ElCheckout
    \/ ElBranchR
    \/ ElCheckoutTrack
    \/ ElCheckoutNew
    \/ CnAdd
    \/ CnStatus
    \/ CnCommit
    \/ PushRun

\* main of push.py in every repository of Repos, each command ending in
\* every way it can
SpecPush == PushInit /\ [][PushNext]_vars


(***************************************************************************)
(* Claims about main of push.py, checked under SpecPush.                   *)
(***************************************************************************)
\* the steps of main, in the order of the module docstring
StepNo ==
    [s \in {"origin", "detect", "switch", "stage", "commit", "push"} |->
        IF s = "origin" THEN 1
        ELSE IF s = "detect" THEN 2
        ELSE IF s = "switch" THEN 3
        ELSE IF s = "stage" THEN 4
        ELSE IF s = "commit" THEN 5
        ELSE 6]

\* the positions in cmds of the commands git <verb> ...
Issued(verb) == {i \in 1..Len(cmds) : cmds[i].argv[2] = verb}

\* git status --porcelain ran and reported changes
StatusDirty ==
    \E i \in Issued("status") : cmds[i].ok /\ Strip(cmds[i].out) # ""

\* the commit step has been passed or taken
PastCommit == pc \in {"push", "returned"} \/ Issued("push") # {} \/ Issued("commit") # {}

\* a word of a command line that forces a push
IsForce(w) == StartsWith(w, "--force") \/ w = "-f" \/ StartsWith(w, "+")

\* C24: the git commands of a run come step by step in the order set
\* origin, detect the default branch, switch to it, stage, commit, push;
\* git commit is issued exactly when git status reported changes after the
\* staging; git push is issued at most once, without force, for the detected
\* branch and with origin at the target URL; and once a command whose failure
\* raises has failed, no command of a later step is issued: nothing at all
\* follows it, or, when the step catches the failure, the step's own
\* fallback command.
C24_PushOrder ==
    /\ \A i, j \in 1..Len(cmds) :
          i < j => StepNo[cmds[i].step] <= StepNo[cmds[j].step]
    /\ Cardinality(Issued("commit")) <= 1
    /\ PastCommit => (Issued("commit") # {} <=> StatusDirty)
    /\ Cardinality(Issued("push")) <= 1
    /\ \A i \in Issued("push") :
          /\ cmds[i].argv = <<"git", "push", "-u", "origin", default_branch>>
          /\ \A k \in 1..Len(cmds[i].argv) : ~IsForce(cmds[i].argv[k])
          /\ git.origin = TARGET_ORIGIN_HTTPS
          /\ i = Len(cmds)
          /\ Issued("add") # {}
          /\ \E k \in 1..(i - 1) :
                cmds[k].step = "detect" /\ cmds[k].ok /\ cmds[k].argv[2] # "fetch"
    /\ \A i \in 1..Len(cmds) :
          (cmds[i].checked /\ ~cmds[i].ok) =>
              IF cmds[i].caught
              THEN i < Len(cmds) => cmds[i + 1].step = cmds[i].step
              ELSE i = Len(cmds) /\ pc = "raised"
    /\ pc = "raised" /\ cmds # <<>> => ~cmds[Len(cmds)].ok

\* a run that changed origin, switched the branch, committed and pushed
C24_Witness ==
    /\ pc = "returned"
    /\ Issued("commit") # {}
    /\ Issued("checkout") # {}
    /\ \E i \in Issued("remote") : cmds[i].argv[3] = "set-url" /\ cmds[i].ok
    /\ \E i \in Issued("push") : cmds[i].ok

=============================================================================
